---- MODULE Spec2Model ----
(***************************************************************************)
(* Generalized maps (gmap/src/lib.rs): the dart store with its flat alpha  *)
(* array, linking, sewing, orbit enumeration and validation.               *)
(*                                                                         *)
(* A dart is a natural number.  alpha is the flat vector of the source,    *)
(* "dart * (dimension + 1) + alpha_index"; the TLA+ sequence is 1-based,   *)
(* so the source's alpha[k] is alpha[k + 1] here.  An index past the end   *)
(* of the vector is a panic, exactly as a Vec index in the source.         *)
(***************************************************************************)
EXTENDS Integers, Sequences, FiniteSets, TLC

VARIABLES dimension, alpha, deleted, last

\* the objects built over a map: an OrbitMap, an OrbitReprs, a Circular
\* list, and a Problem with the Constraints under construction and the
\* locals of the builder
VARIABLES om, reprs, tracking, problem, constraints, frame

\* a FOLD record read, the CreasePattern made of it (its g is the map) with
\* its FoldTracking, and the FoldedState under construction
VARIABLES fold, cp, folded

folding == <<fold, cp, folded>>

vars == <<dimension, alpha, deleted, last, om, reprs, tracking, problem, constraints, frame,
          fold, cp, folded>>

\* everything but the map and the last call
others == <<om, reprs, tracking, problem, constraints, frame, folding>>

(***************************************************************************)
(* Bounds of the exploration.                                              *)
(***************************************************************************)
\* largest dimension a map is grown to
MaxDim == 2
\* darts of a map under the mutating operations
MaxDarts == 3
\* darts of the maps a run starts from
MaxInitDarts == 2
\* how far beyond the dimension the alpha indices a caller passes go
MaxOver == 1
\* darts of a map under the builders alone
MaxBuildDarts == 6
\* darts of the maps whose orbits are queried
MaxObsDarts == 4
\* length and largest entry of the raw vectors handed to from_alpha
MaxRawLen == 4
MaxRawDart == 2

MAX_DIMENSION == 31

\* Option::None for "the index via which a dart was reached"
None == -1
\* marks an enumeration that never finishes
Hang == None - 1

\* none of the objects over the map has been constructed
NoOthers ==
  /\ om = None
  /\ reprs = None
  /\ tracking = None
  /\ problem = None
  /\ constraints = None
  /\ frame = None
  /\ fold = None
  /\ cp = None
  /\ folded = None

\* no FOLD record has been read
NoFolding ==
  /\ fold = None
  /\ cp = None
  /\ folded = None

Min(a, b) == IF a < b THEN a ELSE b

\* last is the call the program made last: its name, its arguments, its
\* Result tag and what it returned
Call(op, args, res, ret) == [op |-> op, args |-> args, res |-> res, ret |-> ret]

Idle == Call("idle", <<>>, "Ok", {})

\* the map the variables hold
self == [dimension |-> dimension, alpha |-> alpha, deleted |-> deleted]

ndarts(g) == Len(g.alpha) \div (g.dimension + 1)

Darts(g) == 0 .. (ndarts(g) - 1)

\* position of (d, i) in the flat vector, 0-based as in the source
Pos(g, d, i) == d * (g.dimension + 1) + i

\* the Vec index panics
OutOfBounds(g, d, i) == Pos(g, d, i) >= Len(g.alpha)

\* impl Index<(Dart, usize)> for GMap
index(g, d, i) == g.alpha[Pos(g, d, i) + 1]

\* al1: the same cell, written
al1(g, d, i, v) == [g EXCEPT !.alpha[Pos(g, d, i) + 1] = v]

is_deleted(g, d) == g.deleted[d + 1]

is_free(g, d, i) == index(g, d, i) = d

(***************************************************************************)
(* Alphas: a bitfield over the 32 bits of a u32, kept as the set of the    *)
(* bits that are 1.                                                        *)
(***************************************************************************)
Bits == 0 .. 31

has(a, i) == i \in a

cell(i) == Bits \ {i}

VERTEX == Bits \ {0}
EDGE == Bits \ {1}
HALF_EDGE == Bits \ {0, 1}
FACE == Bits \ {2}
ANGLE == Bits \ {0, 2}
SIDE == Bits \ {1, 2}
DART == Bits \ {0, 1, 2}
ALL == Bits

\* Alphas(!(1 << i) & !((1 << i) >> 1) & !((1 << i) << 1))
SewMask(i) == Bits \ {i - 1, i, i + 1}

(***************************************************************************)
(* Orbit enumeration.  An enumeration is the sequence of the items         *)
(* <<index via which the dart was reached, dart>> the iterator yields.     *)
(***************************************************************************)

\* the neighbours Orbit::next pushes for one dart, in index order
RECURSIVE Neighbors(_, _, _, _)
Neighbors(g, a, dart, i) ==
  IF i > g.dimension THEN <<>>
  ELSE IF ~has(a, i) THEN Neighbors(g, a, dart, i + 1)
  ELSE <<<<i, index(g, dart, i)>>>> \o Neighbors(g, a, dart, i + 1)

\* impl Iterator for Orbit: breadth-first search with a seen set
RECURSIVE Orbit(_, _, _, _, _)
Orbit(g, a, seen, frontier, out) ==
  IF frontier = <<>> THEN out
  ELSE LET from == Head(frontier)[1]
           dart == Head(frontier)[2]
       IN IF dart \in seen
          THEN Orbit(g, a, seen, Tail(frontier), out)
          ELSE Orbit(g, a, seen \cup {dart},
                     Tail(frontier) \o Neighbors(g, a, dart, 0),
                     Append(out, <<from, dart>>))

BFS(g, d, a) == Orbit(g, a, {}, <<<<None, d>>>>, <<>>)

\* PathOrbitNext with the walk back from the seed left out: at a boundary
\* the iterator is Done
RECURSIVE PathOrbitNextNoBackward(_, _, _, _, _, _, _)
PathOrbitNextNoBackward(g, i, j, start, current, state, fuel) ==
  IF state = "Done" THEN <<>>
  ELSE IF current = start THEN <<>>
  ELSE IF fuel = 0 THEN <<<<Hang, Hang>>>>
  ELSE
    LET old == current
        current_index == IF state \in {"ForwardI", "BackwardI"} THEN i ELSE j
        prev_index == IF state \in {"ForwardI", "BackwardI"} THEN j ELSE i
        cur1 == g.alpha[old * (g.dimension + 1) + current_index + 1]
        st1 == CASE state = "ForwardI" -> "ForwardJ"
                 [] state = "ForwardJ" -> "ForwardI"
                 [] state = "BackwardI" -> "BackwardJ"
                 [] state = "BackwardJ" -> "BackwardI"
    IN <<<<prev_index, old>>>> \o
       (IF cur1 = old THEN <<>>
        ELSE PathOrbitNextNoBackward(g, i, j, start, cur1, st1, fuel - 1))

\* impl Iterator for PathOrbit, after the Initial step.  fuel counts the
\* items still allowed before the walk is known to cycle without end.
RECURSIVE PathOrbitNext(_, _, _, _, _, _, _)
PathOrbitNext(g, i, j, start, current, state, fuel) ==
  IF state = "Done" THEN <<>>
  ELSE IF current = start THEN <<>>
  ELSE IF fuel = 0 THEN <<<<Hang, Hang>>>>
  ELSE
    LET old == current
        current_index == IF state \in {"ForwardI", "BackwardI"} THEN i ELSE j
        prev_index == IF state \in {"ForwardI", "BackwardI"} THEN j ELSE i
        cur1 == index(g, old, current_index)
        st1 == CASE state = "ForwardI" -> "ForwardJ"
                 [] state = "ForwardJ" -> "ForwardI"
                 [] state = "BackwardI" -> "BackwardJ"
                 [] state = "BackwardJ" -> "BackwardI"
    IN <<<<prev_index, old>>>> \o
       (IF cur1 = old
        THEN IF st1 \in {"ForwardI", "ForwardJ"}
             THEN PathOrbitNext(g, i, j, start, index(g, start, j), "BackwardI", fuel - 1)
             ELSE <<>>
        ELSE PathOrbitNext(g, i, j, start, cur1, st1, fuel - 1))

PathFuel(g) == 4 * ndarts(g) + 4

PathOrbit(g, i, j, start) ==
  <<<<None, start>>>> \o
  (IF index(g, start, i) = start
   THEN PathOrbitNext(g, i, j, start, index(g, start, j), "BackwardI", PathFuel(g))
   ELSE PathOrbitNext(g, i, j, start, index(g, start, i), "ForwardJ", PathFuel(g)))

plus_one(g, d, i) ==
  LET d1 == index(g, d, i)
  IN IF d = d1 THEN <<<<None, d>>>> ELSE <<<<None, d>>, <<i, d1>>>>

\* match (!a.0) & 7; the mask ALL has no closed form (the source's None)
HasPlaneOrbit(a) == {0, 1, 2} \ a # {}

plane_orbit_indices(g, d, a) ==
  LET k == {0, 1, 2} \ a
      d0 == index(g, d, 0)
      d2 == index(g, d, 2)
  IN CASE k = {0} -> PathOrbit(g, 1, 2, d)
       [] k = {1} ->
            IF d = d0 THEN plus_one(g, d, 2)
            ELSE IF d = d2 THEN <<<<None, d>>, <<0, d0>>>>
            ELSE <<<<None, d>>, <<0, d0>>, <<2, d2>>, <<2, index(g, d0, 2)>>>>
       [] k = {0, 1} -> plus_one(g, d, 2)
       [] k = {2} -> PathOrbit(g, 0, 1, d)
       [] k = {0, 2} -> plus_one(g, d, 1)
       [] k = {1, 2} -> plus_one(g, d, 0)
       [] k = {0, 1, 2} -> <<<<None, d>>>>

orbit_indices(g, d, a) ==
  IF g.dimension = 2 /\ HasPlaneOrbit(a)
  THEN plane_orbit_indices(g, d, a)
  ELSE BFS(g, d, a)

Hangs(o) == \E k \in 1 .. Len(o) : o[k][1] = Hang

\* orbit: the darts of the enumeration, in order
orbit(g, d, a) ==
  LET o == orbit_indices(g, d, a) IN [k \in 1 .. Len(o) |-> o[k][2]]

Range(s) == {s[k] : k \in 1 .. Len(s)}


(***************************************************************************)
(* Results.  An operation answers with its Result tag ("Ok" or the name of *)
(* the GMapError), "panic" when an unwrap, a panic! or a Vec index aborts  *)
(* it, and "hang" when it never returns; g is the map it leaves behind.    *)
(***************************************************************************)
Res(r, g) == [res |-> r, g |-> g]

link(g, i, d0, d1) ==
  IF OutOfBounds(g, d0, i) THEN Res("panic", g)
  ELSE IF ~is_free(g, d0, i) THEN Res("NotFree", g)
  ELSE IF OutOfBounds(g, d1, i) THEN Res("panic", g)
  ELSE IF ~is_free(g, d1, i) THEN Res("NotFree", g)
  ELSE IF is_deleted(g, d0) \/ is_deleted(g, d1) THEN Res("Deleted", g)
  ELSE Res("Ok", al1(al1(g, d0, i, d1), d1, i, d0))

\* the Dart unlink returns on success is the former partner of d0
unlink(g, i, d0) ==
  IF OutOfBounds(g, d0, i) THEN Res("panic", g)
  ELSE LET d1 == index(g, d0, i)
       IN IF d0 = d1 THEN Res("AlreadyFree", g)
          ELSE IF OutOfBounds(g, d1, i) THEN Res("panic", al1(g, d0, i, d0))
          ELSE Res("Ok", al1(al1(g, d0, i, d0), d1, i, d1))

\* .unwrap() on a link or unlink
unwrap(r) == IF r.res = "Ok" THEN r ELSE Res("panic", r.g)

add_dart(g) ==
  LET d == ndarts(g)
  IN [g EXCEPT !.alpha = g.alpha \o [k \in 1 .. (g.dimension + 1) |-> d],
               !.deleted = Append(g.deleted, FALSE)]

\* returns d0 = ndarts before the call
add_edge(g) ==
  LET d0 == ndarts(g)
      g2 == add_dart(add_dart(g))
  IN unwrap(link(g2, 0, d0, d0 + 1))

\* the loop "for _ in 0..(n - 1)" of add_cycle, k iterations left
RECURSIVE add_cycle_loop(_, _, _, _, _)
add_cycle_loop(g, i, j, prev, k) ==
  IF k = 0 THEN Res("Ok", g) @@ [prev |-> prev]
  ELSE LET d0 == ndarts(g)
           g1 == add_dart(g)
           r1 == unwrap(link(g1, j, prev, d0))
       IN IF r1.res # "Ok" THEN r1 @@ [prev |-> prev]
          ELSE LET d1 == ndarts(r1.g)
                   g2 == add_dart(r1.g)
                   r2 == unwrap(link(g2, i, d0, d1))
               IN IF r2.res # "Ok" THEN r2 @@ [prev |-> prev]
                  ELSE add_cycle_loop(r2.g, i, j, d1, k - 1)

\* add_cycle without the last link, from prev back to start
add_cycle_open(g, i, j, n) ==
  IF n < 1 THEN Res("panic", g)
  ELSE LET start == ndarts(g)
           start1 == start + 1
           g2 == add_dart(add_dart(g))
           r0 == unwrap(link(g2, i, start, start1))
       IN IF r0.res # "Ok" THEN r0
          ELSE LET r1 == add_cycle_loop(r0.g, i, j, start1, n - 1)
               IN Res(r1.res, r1.g)

\* returns start = ndarts before the call
add_cycle(g, i, j, n) ==
  IF n < 1 THEN Res("panic", g)
  ELSE LET start == ndarts(g)
           start1 == start + 1
           g2 == add_dart(add_dart(g))
           r0 == unwrap(link(g2, i, start, start1))
       IN IF r0.res # "Ok" THEN r0
          ELSE LET r1 == add_cycle_loop(r0.g, i, j, start1, n - 1)
               IN IF r1.res # "Ok" THEN Res(r1.res, r1.g)
                  ELSE unwrap(link(r1.g, j, r1.prev, start))

add_polygon(g, n) == add_cycle(g, 1, 0, n)

delete(g, d) ==
  LET to_delete == Range(orbit(g, d, ALL))
  IN [g EXCEPT !.deleted = [k \in 1 .. Len(g.deleted) |->
                              IF (k - 1) \in to_delete THEN TRUE ELSE g.deleted[k]]]

\* increase_dimension copying with the new stride on both sides
increase_dimension_new_stride(g, dim) ==
  IF dim < g.dimension THEN Res("CannotDecreaseDimension", g)
  ELSE IF dim > MAX_DIMENSION THEN Res("DimensionTooLarge", g)
  ELSE LET n == ndarts(g)
           new_al == [k \in 1 .. n * (dim + 1) |->
                        LET d == (k - 1) \div (dim + 1)
                            i == (k - 1) % (dim + 1)
                        IN IF i <= g.dimension /\ k <= Len(g.alpha) THEN g.alpha[k] ELSE d]
       IN Res("Ok", [g EXCEPT !.alpha = new_al, !.dimension = dim])

increase_dimension(g, dim) ==
  IF dim < g.dimension THEN Res("CannotDecreaseDimension", g)
  ELSE IF dim > MAX_DIMENSION THEN Res("DimensionTooLarge", g)
  ELSE LET n == ndarts(g)
           new_al == [k \in 1 .. n * (dim + 1) |->
                        LET d == (k - 1) \div (dim + 1)
                            i == (k - 1) % (dim + 1)
                        IN IF i <= g.dimension THEN index(g, d, i) ELSE d]
       IN Res("Ok", [g EXCEPT !.alpha = new_al, !.dimension = dim])

(***************************************************************************)
(* sew.  The walk zips the two orbit enumerations; m01 is kept as the set  *)
(* of its pairs <<key, value>>.                                            *)
(***************************************************************************)
Keys(m) == {p[1] : p \in m}

Get(m, k) == (CHOOSE p \in m : p[1] = k)[2]

RECURSIVE sew_walk(_, _, _, _, _, _, _)
sew_walk(g, i, o0, o1, k, m01, s1) ==
  IF k > Len(o0) /\ k > Len(o1) THEN [res |-> "Ok", m01 |-> m01]
  ELSE IF k <= Len(o0) /\ o0[k][1] = Hang THEN [res |-> "hang", m01 |-> m01]
  ELSE IF k <= Len(o1) /\ o1[k][1] = Hang THEN [res |-> "hang", m01 |-> m01]
  ELSE IF k > Len(o0) \/ k > Len(o1) \/ o0[k][1] # o1[k][1]
       THEN [res |-> "Unsewable", m01 |-> m01]
  ELSE
    LET j == o0[k][1]
        d0 == o0[k][2]
        d1 == o1[k][2]
        back == index(g, d0, j)
    IN IF d0 \in Keys(m01) \/ d1 \in Keys(m01) \/ d0 \in s1 \/ d1 \in s1
       THEN [res |-> "Unsewable", m01 |-> m01]
       ELSE IF j # None /\ (back \notin Keys(m01) \/ index(g, Get(m01, back), j) # d1)
       THEN [res |-> "Unsewable", m01 |-> m01]
       ELSE IF OutOfBounds(g, d0, i) THEN [res |-> "panic", m01 |-> m01]
       ELSE IF ~is_free(g, d0, i) THEN [res |-> "Unsewable", m01 |-> m01]
       ELSE IF OutOfBounds(g, d1, i) THEN [res |-> "panic", m01 |-> m01]
       ELSE IF ~is_free(g, d1, i) THEN [res |-> "Unsewable", m01 |-> m01]
       ELSE sew_walk(g, i, o0, o1, k + 1, m01 \cup {<<d0, d1>>}, s1 \cup {d1})

\* "for (&d0, &d1) in m01.iter() { self.link(i, d0, d1).unwrap(); }" in the
\* order ord of the pairs
RECURSIVE sew_link(_, _, _, _)
sew_link(g, i, ord, k) ==
  IF k > Len(ord) THEN Res("Ok", g)
  ELSE LET r == unwrap(link(g, i, ord[k][1], ord[k][2]))
       IN IF r.res # "Ok" THEN r ELSE sew_link(r.g, i, ord, k + 1)

\* the orders in which a HashMap may hand out its entries
Orders(m) ==
  {s \in [1 .. Cardinality(m) -> m] : \A x, y \in 1 .. Cardinality(m) : s[x] = s[y] => x = y}

\* the pairs the walk of sew(i, d0, d1) collects, and its verdict
sew_pairs(g, i, d0, d1) ==
  sew_walk(g, i, orbit_indices(g, d0, SewMask(i)), orbit_indices(g, d1, SewMask(i)), 1, {}, {})

\* sew with the iteration order of m01 given; ret is the returned mapping
sew(g, i, d0, d1, ord) ==
  LET w == sew_pairs(g, i, d0, d1)
  IN IF w.res # "Ok" THEN [res |-> w.res, g |-> g, ret |-> {}]
     ELSE LET r == sew_link(g, i, ord, 1)
          IN [res |-> r.res, g |-> r.g, ret |-> IF r.res = "Ok" THEN w.m01 ELSE {}]

(***************************************************************************)
(* unsew                                                                   *)
(***************************************************************************)
RECURSIVE unsew_loop(_, _, _, _)
unsew_loop(g, i, ds, k) ==
  IF k > Len(ds) THEN Res("Ok", g)
  ELSE LET r == unwrap(unlink(g, i, ds[k]))
       IN IF r.res # "Ok" THEN r ELSE unsew_loop(r.g, i, ds, k + 1)

unsew(g, d, i) ==
  LET indices == SewMask(i)
      o == orbit_indices(g, d, indices)
      ds == orbit(g, d, indices)
  IN IF \E k \in 1 .. Len(ds) : ds[k] # Hang /\ OutOfBounds(g, ds[k], i)
     THEN [res |-> "panic", g |-> g, ret |-> {}]
     ELSE IF Hangs(o) THEN [res |-> "hang", g |-> g, ret |-> {}]
     ELSE LET to_unsew == {<<ds[k], index(g, ds[k], i)>> : k \in 1 .. Len(ds)}
          IN IF \E p \in to_unsew : p[2] \in Keys(to_unsew)
             THEN [res |-> "Ununsewable", g |-> g, ret |-> {}]
             ELSE LET r == unsew_loop(g, i, ds, 1)
                  IN [res |-> r.res, g |-> r.g,
                      ret |-> IF r.res = "Ok" THEN to_unsew ELSE {}]


(***************************************************************************)
(* Construction and validation.  overflow_checks is the build: with it     *)
(* (debug) "self.dimension - 1" panics for dimension 0, without it         *)
(* (release) the subtraction wraps and the loop over i runs 2^64 times.    *)
(***************************************************************************)
\* al(d, [i, j]): alpha_i first, then alpha_j
al2(g, d, i, j) == index(g, index(g, d, i), j)

check_valid(g, overflow_checks) ==
  LET n == ndarts(g)
  IN IF Len(g.alpha) % (g.dimension + 1) # 0 THEN "InvalidAlpha"
     ELSE IF Len(g.deleted) # n THEN "InvalidAlpha"
     ELSE IF \E d \in 0 .. (n - 1), i \in 0 .. g.dimension : index(g, d, i) >= n
     THEN "InvalidAlpha"
     ELSE IF \E i \in 0 .. g.dimension, d \in 0 .. (n - 1) :
               \/ index(g, index(g, d, i), i) # d
               \/ (~g.deleted[d + 1] /\ g.deleted[index(g, d, i) + 1])
     THEN "InvalidAlpha"
     ELSE IF g.dimension = 0
     THEN (IF overflow_checks THEN "panic" ELSE "hang")
     ELSE IF \E i \in 0 .. (g.dimension - 2) :
               \E j \in (i + 2) .. g.dimension, d \in 0 .. (n - 1) :
                 al2(g, d, i, j) # al2(g, d, j, i)
     THEN "InvalidAlpha"
     ELSE "Ok"

from_alpha(dim, a, overflow_checks) ==
  IF dim > MAX_DIMENSION THEN "DimensionTooLarge"
  ELSE LET nd == Len(a) \div (dim + 1)
           g == [dimension |-> dim, alpha |-> a, deleted |-> [k \in 1 .. nd |-> FALSE]]
       IN check_valid(g, overflow_checks)

empty(dim, overflow_checks) == from_alpha(dim, <<>>, overflow_checks)

(***************************************************************************)
(* The state machine.                                                      *)
(***************************************************************************)
\* a panic ends the program and a hang never returns
Stopped == last.res \in {"panic", "hang"}

\* the caller is between two calls
Ready == last.op = "idle"

\* involutions of 0 .. n-1, as functions
Involutions(n) ==
  {f \in [0 .. (n - 1) -> 0 .. (n - 1)] : \A d \in 0 .. (n - 1) : f[f[d]] = d}

\* the alpha vectors whose alpha_i are involutions, for nd darts
InitAlphas(dim, nd) ==
  {[k \in 1 .. nd * (dim + 1) |-> fs[(k - 1) % (dim + 1)][(k - 1) \div (dim + 1)]] :
     fs \in [0 .. dim -> Involutions(nd)]}

Set(g) ==
  /\ dimension' = g.dimension
  /\ alpha' = g.alpha
  /\ deleted' = g.deleted

\* the state after GMap::from_alpha(dim, a) returned Ok
Init ==
  \E dim \in 1 .. MaxDim, nd \in 0 .. MaxInitDarts :
    \E a \in InitAlphas(dim, nd) :
      /\ from_alpha(dim, a, TRUE) = "Ok"
      /\ dimension = dim
      /\ alpha = a
      /\ deleted = [k \in 1 .. nd |-> FALSE]
      /\ last = Call("from_alpha", <<dim>>, "Ok", {})
      /\ NoOthers

\* the caller takes the result and goes on
Return ==
  /\ ~Ready
  /\ ~Stopped
  /\ last' = Idle
  /\ UNCHANGED <<dimension, alpha, deleted>>

\* the alpha indices a caller passes: those of the map and MaxOver beyond
Indices == 0 .. (dimension + MaxOver)

AddDart(maxd) ==
  /\ Ready
  /\ ndarts(self) + 1 <= maxd
  /\ Set(add_dart(self))
  /\ last' = Call("add_dart", <<>>, "Ok", ndarts(self))

AddEdge(maxd) ==
  /\ Ready
  /\ ndarts(self) + 2 <= maxd
  /\ LET r == add_edge(self)
     IN /\ Set(r.g)
        /\ last' = Call("add_edge", <<>>, r.res, ndarts(self))

AddCycle(maxd) ==
  /\ Ready
  /\ \E i \in Indices, j \in Indices, n \in 0 .. (maxd \div 2) :
       /\ ndarts(self) + 2 * n <= maxd
       /\ LET r == add_cycle(self, i, j, n)
          IN /\ Set(r.g)
             /\ last' = Call("add_cycle", <<i, j, n>>, r.res, ndarts(self))

AddPolygon(maxd) ==
  /\ Ready
  /\ \E n \in 0 .. (maxd \div 2) :
       /\ ndarts(self) + 2 * n <= maxd
       /\ LET r == add_polygon(self, n)
          IN /\ Set(r.g)
             /\ last' = Call("add_polygon", <<n>>, r.res, ndarts(self))

Sew ==
  /\ Ready
  /\ \E i \in Indices, d0 \in Darts(self), d1 \in Darts(self) :
       \E ord \in Orders(sew_pairs(self, i, d0, d1).m01) :
         LET r == sew(self, i, d0, d1, ord)
         IN /\ Set(r.g)
            /\ last' = Call("sew", <<i, d0, d1>>, r.res, r.ret)

Unsew ==
  /\ Ready
  /\ \E d \in Darts(self), i \in Indices :
       LET r == unsew(self, d, i)
       IN /\ Set(r.g)
          /\ last' = Call("unsew", <<d, i>>, r.res, r.ret)

Delete ==
  /\ Ready
  /\ \E d \in Darts(self) :
       /\ Set(delete(self, d))
       /\ last' = Call("delete", <<d>>, "Ok", {})

IncreaseDimension ==
  /\ Ready
  /\ \E dim \in (0 .. MaxDim) \cup {MAX_DIMENSION + 1} :
       LET r == increase_dimension(self, dim)
       IN /\ Set(r.g)
          /\ last' = Call("increase_dimension", <<dim>>, r.res, {})

Next ==
  \/ Return /\ UNCHANGED others
  \/ AddDart(MaxDarts) /\ UNCHANGED others
  \/ AddEdge(MaxDarts) /\ UNCHANGED others
  \/ AddCycle(MaxDarts) /\ UNCHANGED others
  \/ AddPolygon(MaxDarts) /\ UNCHANGED others
  \/ Sew /\ UNCHANGED others
  \/ Unsew /\ UNCHANGED others
  \/ Delete /\ UNCHANGED others
  \/ IncreaseDimension /\ UNCHANGED others

Spec == Init /\ [][Next]_vars


(***************************************************************************)
(* The builders alone, on larger maps.                                     *)
(***************************************************************************)
NextBuild ==
  \/ Return /\ UNCHANGED others
  \/ AddDart(MaxBuildDarts) /\ UNCHANGED others
  \/ AddEdge(MaxBuildDarts) /\ UNCHANGED others
  \/ AddCycle(MaxBuildDarts) /\ UNCHANGED others
  \/ AddPolygon(MaxBuildDarts) /\ UNCHANGED others

InitBuild ==
  \E dim \in 1 .. MaxDim :
    /\ empty(dim, TRUE) = "Ok"
    /\ dimension = dim
    /\ alpha = <<>>
    /\ deleted = <<>>
    /\ last = Call("empty", <<dim>>, "Ok", {})
    /\ NoOthers

SpecBuild == InitBuild /\ [][NextBuild]_vars

(***************************************************************************)
(* GMap::from_alpha on raw input.  Before the call the variables hold the  *)
(* arguments; after it, the map (if Ok) and the call's outcome.            *)
(***************************************************************************)
RawAlphas ==
  UNION {[1 .. n -> 0 .. MaxRawDart] : n \in 0 .. MaxRawLen}

InitRaw ==
  \E dim \in (0 .. MaxDim) \cup {MAX_DIMENSION + 1}, a \in RawAlphas :
    /\ dimension = dim
    /\ alpha = a
    /\ deleted = <<>>
    /\ last = Call("input", <<>>, "Ok", {})
    /\ NoOthers

FromAlpha ==
  /\ last.op = "input"
  /\ \E overflow_checks \in BOOLEAN :
       LET r == from_alpha(dimension, alpha, overflow_checks)
       IN /\ last' = Call("from_alpha", <<dimension, alpha>>, r, {})
          /\ deleted' = IF r = "Ok"
                        THEN [k \in 1 .. (Len(alpha) \div (dimension + 1)) |-> FALSE]
                        ELSE <<>>
          /\ UNCHANGED <<dimension, alpha>>
          /\ UNCHANGED others

SpecFromAlpha == InitRaw /\ [][FromAlpha]_vars

(***************************************************************************)
(* Queries on every valid map of up to MaxObsDarts darts, with tombstones. *)
(***************************************************************************)
\* unique_by_orbit with only the yielded dart itself marked as seen
RECURSIVE unique_by_orbit_seen_self(_, _, _, _, _)
unique_by_orbit_seen_self(g, l, a, k, seen) ==
  IF k > Len(l) THEN <<>>
  ELSE IF l[k] \in seen THEN unique_by_orbit_seen_self(g, l, a, k + 1, seen)
  ELSE <<l[k]>> \o unique_by_orbit_seen_self(g, l, a, k + 1, seen \cup {l[k]})

\* filter out darts which are in the same a-orbit as a previous dart
RECURSIVE unique_by_orbit_from(_, _, _, _, _)
unique_by_orbit_from(g, l, a, k, seen) ==
  IF k > Len(l) THEN <<>>
  ELSE IF l[k] \in seen THEN unique_by_orbit_from(g, l, a, k + 1, seen)
  ELSE <<l[k]>> \o unique_by_orbit_from(g, l, a, k + 1, seen \cup Range(orbit(g, l[k], a)))

unique_by_orbit(g, l, a) == unique_by_orbit_from(g, l, a, 1, {})

\* darts(): the live darts in increasing order
RECURSIVE darts_from(_, _)
darts_from(g, d) ==
  IF d >= ndarts(g) THEN <<>>
  ELSE IF is_deleted(g, d) THEN darts_from(g, d + 1)
  ELSE <<d>> \o darts_from(g, d + 1)

darts(g) == darts_from(g, 0)

one_dart_per_orbit(g, a) == unique_by_orbit(g, darts(g), a)

\* the masks a caller passes: any choice among the indices 0 .. 2, with the
\* bits above them set (as in VERTEX, EDGE, ...) 
Masks == {(Bits \ {0, 1, 2}) \cup s : s \in SUBSET {0, 1, 2}}

InitObs ==
  \E dim \in 1 .. MaxDim, nd \in 0 .. MaxObsDarts :
    \E a \in InitAlphas(dim, nd) :
      /\ from_alpha(dim, a, TRUE) = "Ok"
      /\ dimension = dim
      /\ alpha = a
      /\ deleted = [k \in 1 .. nd |-> FALSE]
      /\ last = Call("from_alpha", <<dim>>, "Ok", {})
      /\ NoOthers

QueryOrbit ==
  /\ Ready
  /\ \E d \in Darts(self), a \in Masks :
       /\ last' = Call("orbit", <<d, a>>, "Ok", orbit(self, d, a))
       /\ UNCHANGED <<dimension, alpha, deleted>>

QueryOneDartPerOrbit ==
  /\ Ready
  /\ \E a \in Masks :
       /\ last' = Call("one_dart_per_orbit", <<a>>, "Ok", one_dart_per_orbit(self, a))
       /\ UNCHANGED <<dimension, alpha, deleted>>

NextObs ==
  \/ Return /\ UNCHANGED others
  \/ Delete /\ UNCHANGED others
  \/ QueryOrbit /\ UNCHANGED others
  \/ QueryOneDartPerOrbit /\ UNCHANGED others

SpecObs == InitObs /\ [][NextObs]_vars


(***************************************************************************)
(* Properties                                                              *)
(***************************************************************************)
\* the map after the step
selfNext == [dimension |-> dimension', alpha |-> alpha', deleted |-> deleted']

\* the validity check_valid decides, for a map in hand
Valid(g) == g.dimension >= 1 /\ check_valid(g, TRUE) = "Ok"

\* the closure of {d} under the alpha_i with i in a, i <= dimension
RECURSIVE Close(_, _, _)
Close(g, a, s) ==
  LET t == s \cup {index(g, d, i) : d \in s, i \in (0 .. g.dimension) \cap a}
  IN IF t = s THEN s ELSE Close(g, a, t)

Closure(g, d, a) == Close(g, a, {d})

\* C1: in every map reachable by the public operations, successful or
\* failing, every alpha_i, i in 0..=dimension, is an involution:
\* alpha_i(alpha_i(d)) = d for every dart d.  (Stated for the maps of a
\* program that still runs; a panic ends it.)
C1_Involutions ==
  ~Stopped => \A d \in Darts(self), i \in 0 .. dimension : al2(self, d, i, i) = d

\* C2: in every map reachable by the builders (add_cycle with any i, j),
\* alpha_i alpha_j alpha_i alpha_j (d) = d for all |i - j| >= 2 and all d.
C2_Commute ==
  \A d \in Darts(self), i \in 0 .. dimension, j \in 0 .. dimension :
    (i - j >= 2 \/ j - i >= 2) =>
      index(self, index(self, index(self, index(self, d, j), i), j), i) = d

\* C3: after every successful sew(i, d0, d1) on a valid map, unsew(d0, i)
\* succeeds and restores the alpha vector the map had before the sew.
C3_SewUnsew ==
  [][(last'.op = "sew" /\ last'.res = "Ok" /\ Valid(self)) =>
       LET r == unsew(selfNext, last'.args[2], last'.args[1])
       IN r.res = "Ok" /\ r.g.alpha = alpha]_vars

\* the darts of the first k items of an enumeration
Firsts(o, k) == {o[x][2] : x \in 1 .. Min(k, Len(o))}

\* the conditions of C4 on the lockstep walk of the two orbits
WalkMismatch(g, i, d0, d1) ==
  LET o0 == orbit_indices(g, d0, SewMask(i))
      o1 == orbit_indices(g, d1, SewMask(i))
      n == Min(Len(o0), Len(o1))
  IN \/ Len(o0) # Len(o1)
     \/ \E k \in 1 .. n : o0[k][1] # o1[k][1]
     \/ \E k \in 1 .. n : o0[k][2] \in Firsts(o1, k - 1) \/ o1[k][2] \in Firsts(o0, k - 1)
     \/ i <= g.dimension /\ \E k \in 1 .. n : \E d \in {o0[k][2], o1[k][2]} :
                                ~is_free(g, d, i)

\* C4: sew(i, d0, d1) returns Unsewable and leaves alpha unchanged whenever
\* the walk of the two orbits differs in length or tags, meets a dart already
\* paired, or meets a dart that is not i-free; a failed sew links nothing.
C4_Unsewable ==
  [][(last'.op = "sew") =>
       /\ WalkMismatch(self, last'.args[1], last'.args[2], last'.args[3]) =>
            (last'.res = "Unsewable" /\ alpha' = alpha)
       /\ last'.res # "Ok" => alpha' = alpha]_vars

\* C5: after every successful sew(i, d0, d1), d0 = d1 included, d0 and d1
\* are not i-free, alpha_i(d0) = d1, and every pair (a, b) of the returned
\* mapping has alpha_i(a) = b, alpha_i(b) = a and a # b.
C5_SewLinks ==
  (last.op = "sew" /\ last.res = "Ok") =>
    LET i == last.args[1]
        d0 == last.args[2]
        d1 == last.args[3]
    IN /\ ~is_free(self, d0, i)
       /\ ~is_free(self, d1, i)
       /\ index(self, d0, i) = d1
       /\ \A p \in last.ret :
            index(self, p[1], i) = p[2] /\ index(self, p[2], i) = p[1] /\ p[1] # p[2]

NoLiveToDeleted(g) ==
  \A d \in Darts(g), i \in 0 .. g.dimension :
    ~is_deleted(g, d) => ~is_deleted(g, index(g, d, i))

\* C6: delete(d) tombstones exactly the darts of d's orbit under all
\* involutions, and in every reachable state no live dart has an alpha image
\* that is a deleted dart.  (The second part is stated for the maps of a
\* program that still runs.)
C6_Delete ==
  [][/\ last'.op = "delete" =>
          \A x \in Darts(self) :
            is_deleted(selfNext, x) <=>
              (is_deleted(self, x) \/ x \in Closure(self, last'.args[1], ALL))
     /\ last'.res \notin {"panic", "hang"} => NoLiveToDeleted(selfNext)]_vars

\* C7: a sew(i, d0, d1) with d0 or d1 deleted is answered with the error
\* Deleted or Unsewable and leaves alpha unchanged; it never aborts.
C7_SewDeleted ==
  [][(/\ last'.op = "sew"
      /\ (is_deleted(self, last'.args[2]) \/ is_deleted(self, last'.args[3]))) =>
       (last'.res \in {"Deleted", "Unsewable"} /\ alpha' = alpha)]_vars

\* what C8 asks of the raw vector a for dimension n
RawValid(n, a) ==
  LET nd == Len(a) \div (n + 1)
      at(d, i) == a[d * (n + 1) + i + 1]
  IN /\ Len(a) % (n + 1) = 0
     /\ \A k \in 1 .. Len(a) : a[k] < nd
     /\ \A d \in 0 .. (nd - 1), i \in 0 .. n : at(at(d, i), i) = d
     /\ \A d \in 0 .. (nd - 1), i \in 0 .. n, j \in 0 .. n :
          (i - j >= 2 \/ j - i >= 2) => at(at(at(at(d, j), i), j), i) = d

\* C8: from_alpha(n, alpha) returns Ok exactly when alpha has a multiple of
\* n+1 entries, each a dart below the dart count, every alpha_i is an
\* involution and alpha_i alpha_j is one for |i-j| >= 2; otherwise it returns
\* InvalidAlpha, or DimensionTooLarge when n > 31.
C8_FromAlpha ==
  (last.op = "from_alpha") =>
    IF dimension > MAX_DIMENSION THEN last.res = "DimensionTooLarge"
    ELSE IF RawValid(dimension, alpha) THEN last.res = "Ok"
    ELSE last.res = "InvalidAlpha"

\* from_alpha decides validity for every dimension from 1 up
FromAlphaPositiveDimension ==
  (last.op = "from_alpha" /\ dimension >= 1) =>
    IF dimension > MAX_DIMENSION THEN last.res = "DimensionTooLarge"
    ELSE IF RawValid(dimension, alpha) THEN last.res = "Ok"
    ELSE last.res = "InvalidAlpha"


Live(g) == {d \in Darts(g) : ~is_deleted(g, d)}

\* C9: for every mask A and every valid map, one_dart_per_orbit(A) yields
\* exactly one dart for each A-orbit of live darts, that dart is the smallest
\* of its orbit, and the darts come in increasing order.
C9_OneDartPerOrbit ==
  (last.op = "one_dart_per_orbit" /\ Valid(self)) =>
    LET a == last.args[1]
        r == last.ret
    IN /\ Range(r) \subseteq Live(self)
       /\ \A d \in Live(self) :
            Cardinality({k \in 1 .. Len(r) : r[k] \in Closure(self, d, a)}) = 1
       /\ \A k \in 1 .. Len(r) : \A x \in Closure(self, r[k], a) : r[k] <= x
       /\ \A k \in 1 .. (Len(r) - 1) : r[k] < r[k + 1]

\* a map with a tombstone and two live orbits, one of them of several darts
C9_Witness ==
  /\ last.op = "one_dart_per_orbit"
  /\ Valid(self)
  /\ Len(last.ret) = 2
  /\ Cardinality(Live(self)) = 3
  /\ \E d \in Darts(self) : is_deleted(self, d)
  /\ \E d \in Live(self) : d \notin Range(last.ret) /\ d < last.ret[2]

\* the named masks of C10
PlaneMasks == {VERTEX, EDGE, HALF_EDGE, FACE, ANGLE, SIDE, DART}

\* C10: in a valid 2-dimensional map, for each of the masks VERTEX, EDGE,
\* HALF_EDGE, FACE, ANGLE, SIDE, DART and every dart d, the darts of the
\* closed-form enumeration are those of the breadth-first search (taken on the
\* same map after increase_dimension), the closure of {d} under the selected
\* involutions.
C10_PlaneOrbits ==
  (last.op = "orbit" /\ dimension = 2 /\ Valid(self) /\ last.args[2] \in PlaneMasks) =>
    LET d == last.args[1]
        a == last.args[2]
        up == increase_dimension(self, dimension + 1)
    IN /\ ~Hangs(orbit_indices(self, d, a))
       /\ up.res = "Ok"
       /\ Range(last.ret) = {p[2] : p \in Range(BFS(up.g, d, a))}
       /\ Range(last.ret) = Closure(self, d, a)

\* a face open at both ends, entered in the middle: the walk goes forward
\* to the boundary and then backward from the seed
C10_Witness ==
  /\ last.op = "orbit"
  /\ dimension = 2
  /\ Valid(self)
  /\ last.args[2] = FACE
  /\ Len(last.ret) = 4
  /\ Cardinality(Range(last.ret)) = 4
  /\ is_free(self, last.ret[2], 1)
  /\ ~is_free(self, last.args[1], 0)
  /\ ~is_free(self, last.args[1], 1)


(***************************************************************************)
(* OrbitMap: a HashMap from darts to values, written one orbit at a time.  *)
(* map is kept as a function over the darts of the map, None where the     *)
(* HashMap has no entry.  The G-map is the caller's and does not change.   *)
(***************************************************************************)
\* largest map an OrbitMap or an OrbitReprs is built over
MaxOrbitMapDarts == 3
\* the values stored are 1 .. MaxValue
MaxValue == 2

Values == 1 .. MaxValue

OrbitMap_new(g, indices) == [map |-> [d \in Darts(g) |-> None], indices |-> indices]

\* insert writing the entry of k alone
insert_key_only(m, g, k, v) == [m EXCEPT !.map[k] = v]

insert(m, g, k, v) ==
  LET o == Range(orbit(g, k, m.indices))
  IN [m EXCEPT !.map = [d \in DOMAIN m.map |-> IF d \in o THEN v ELSE m.map[d]]]

\* the fold of remove with Option::or_else in place of Option::or: nothing
\* is removed once a value has been found
RECURSIVE remove_fold_lazy(_, _, _, _)
remove_fold_lazy(map, o, k, v) ==
  IF k > Len(o) THEN [map |-> map, ret |-> v]
  ELSE IF v # None THEN remove_fold_lazy(map, o, k + 1, v)
  ELSE remove_fold_lazy([map EXCEPT ![o[k]] = None], o, k + 1, map[o[k]])

\* fold(None, |v, n| v.or(self.map.remove(&n))): the argument of or is
\* evaluated at every dart, so every entry goes; the first value stays
RECURSIVE remove_fold(_, _, _, _)
remove_fold(map, o, k, v) ==
  IF k > Len(o) THEN [map |-> map, ret |-> v]
  ELSE remove_fold([map EXCEPT ![o[k]] = None], o, k + 1,
                   IF v # None THEN v ELSE map[o[k]])

remove(m, g, k) ==
  LET r == remove_fold(m.map, orbit(g, k, m.indices), 1, None)
  IN [m |-> [m EXCEPT !.map = r.map], ret |-> r.ret]

\* everything but the last call and the OrbitMap
notOrbitMap == <<dimension, alpha, deleted, reprs, tracking, problem, constraints, frame, folding>>

InitOrbitMap ==
  \E dim \in 1 .. MaxDim, nd \in 1 .. MaxOrbitMapDarts :
    \E a \in InitAlphas(dim, nd), indices \in Masks :
      /\ from_alpha(dim, a, TRUE) = "Ok"
      /\ dimension = dim
      /\ alpha = a
      /\ deleted = [k \in 1 .. nd |-> FALSE]
      /\ last = Call("new", <<indices>>, "Ok", {})
      /\ om = OrbitMap_new([dimension |-> dim, alpha |-> a], indices)
      /\ reprs = None
      /\ tracking = None
      /\ problem = None
      /\ constraints = None
      /\ frame = None
      /\ NoFolding

Insert ==
  /\ Ready
  /\ \E k \in Darts(self), v \in Values :
       /\ om' = insert(om, self, k, v)
       /\ last' = Call("insert", <<k, v>>, "Ok", {})
  /\ UNCHANGED notOrbitMap

Remove ==
  /\ Ready
  /\ \E k \in Darts(self) :
       LET r == remove(om, self, k)
       IN /\ om' = r.m
          /\ last' = Call("remove", <<k>>, "Ok", r.ret)
  /\ UNCHANGED notOrbitMap

NextOrbitMap ==
  \/ Return /\ UNCHANGED others
  \/ Insert
  \/ Remove

SpecOrbitMap == InitOrbitMap /\ [][NextOrbitMap]_vars

\* all darts of one orbit carry the same value or none
Uniform(m, g) ==
  \A d \in Darts(g) : \A e \in Closure(g, d, m.indices) : m.map[e] = m.map[d]

\* C11: after insert(g, d, v) every dart of the A-orbit of d maps to v and
\* the entries of the darts outside that orbit are as before; so, over an
\* unchanged G-map, after any inserts and removes the darts of one A-orbit
\* all carry the same value or all carry none, and a later insert
\* overrides an earlier one on the whole orbit.
C11_Insert ==
  [][/\ (last'.op = "insert") =>
          LET k == last'.args[1]
              v == last'.args[2]
              o == Closure(self, k, om.indices)
          IN /\ \A d \in o : om'.map[d] = v
             /\ \A d \in Darts(self) \ o : om'.map[d] = om.map[d]
     /\ Uniform(om, self) => Uniform(om', self)]_vars

\* an insert into an orbit of several darts that carried another value,
\* beside an orbit whose value stays
C11_Witness ==
  /\ last.op = "insert"
  /\ Valid(self)
  /\ LET k == last.args[1]
         o == Closure(self, k, om.indices)
     IN /\ Cardinality(o) >= 2
        /\ \E d \in Darts(self) \ o : om.map[d] \notin {None, last.args[2]}

\* C12: remove(g, d) leaves no entry for any dart of the A-orbit of d,
\* leaves every other entry as it was, and returns a value exactly when
\* some dart of the orbit carried one before the call.
C12_Remove ==
  [][(last'.op = "remove") =>
       LET k == last'.args[1]
           o == Closure(self, k, om.indices)
       IN /\ \A d \in o : om'.map[d] = None
          /\ \A d \in Darts(self) \ o : om'.map[d] = om.map[d]
          /\ (last'.ret # None) <=> (\E d \in o : om.map[d] # None)
          /\ last'.ret # None => \E d \in o : om.map[d] = last'.ret]_vars

\* a remove that returned a value and emptied an orbit of several darts,
\* with an entry of another orbit left
C12_Witness ==
  /\ last.op = "remove"
  /\ last.ret # None
  /\ Cardinality(Closure(self, last.args[1], om.indices)) >= 2
  /\ \E d \in Darts(self) : om.map[d] # None


(***************************************************************************)
(* OrbitReprs: for each mask built, the vector of the lowest dart of each  *)
(* dart's orbit.  reprs is the HashMap: a function from the masks built    *)
(* to their vectors.                                                       *)
(***************************************************************************)
\* at most MaxBuilt masks are built in one OrbitReprs
MaxBuilt == 2

\* Dart(!0), the filler of a vector under construction
NoDart == None - 2

OrbitReprs_new == [a \in {} |-> <<>>]

get(r, a, d) == IF a \notin DOMAIN r THEN None ELSE r[a][d]

\* Iterator::min of a nonempty sequence of darts
min(o) == CHOOSE x \in Range(o) : \A y \in Range(o) : x <= y

get_or_search(r, g, a, d) ==
  IF get(r, a, d) # None THEN get(r, a, d) ELSE min(orbit(g, d, a))

\* the loop of build without the test of seen: every dart stamps its orbit
RECURSIVE build_loop_no_seen(_, _, _, _, _)
build_loop_no_seen(g, a, d, seen, v) ==
  IF d >= ndarts(g) THEN v
  ELSE LET o == Range(orbit(g, d, a))
       IN build_loop_no_seen(g, a, d + 1, seen \cup o,
                             [n \in DOMAIN v |-> IF n \in o THEN d ELSE v[n]])

\* for d in (0..g.ndarts()).map(Dart) { ... } of build
RECURSIVE build_loop(_, _, _, _, _)
build_loop(g, a, d, seen, v) ==
  IF d >= ndarts(g) THEN v
  ELSE IF d \in seen THEN build_loop(g, a, d + 1, seen, v)
  ELSE LET o == Range(orbit(g, d, a))
       IN build_loop(g, a, d + 1, seen \cup o,
                     [n \in DOMAIN v |-> IF n \in o THEN d ELSE v[n]])

build(r, g, a) ==
  LET v == build_loop(g, a, 0, {}, [d \in Darts(g) |-> NoDart])
  IN [b \in DOMAIN r \cup {a} |-> IF b = a THEN v ELSE r[b]]

\* everything but the last call and the OrbitReprs
notOrbitReprs == <<dimension, alpha, deleted, om, tracking, problem, constraints, frame, folding>>

InitOrbitReprs ==
  \E dim \in 1 .. MaxDim, nd \in 1 .. MaxOrbitMapDarts :
    \E a \in InitAlphas(dim, nd) :
      /\ from_alpha(dim, a, TRUE) = "Ok"
      /\ dimension = dim
      /\ alpha = a
      /\ deleted = [k \in 1 .. nd |-> FALSE]
      /\ last = Call("new", <<>>, "Ok", {})
      /\ reprs = OrbitReprs_new
      /\ om = None
      /\ tracking = None
      /\ problem = None
      /\ constraints = None
      /\ frame = None
      /\ NoFolding

Build ==
  /\ Ready
  /\ \E a \in Masks :
       /\ Cardinality(DOMAIN reprs \cup {a}) <= MaxBuilt
       /\ reprs' = build(reprs, self, a)
       /\ last' = Call("build", <<a>>, "Ok", {})
  /\ UNCHANGED notOrbitReprs

GetOrSearch ==
  /\ Ready
  /\ \E a \in Masks, d \in Darts(self) :
       last' = Call("get_or_search", <<a, d>>, "Ok", get_or_search(reprs, self, a, d))
  /\ UNCHANGED reprs
  /\ UNCHANGED notOrbitReprs

NextOrbitReprs ==
  \/ Return /\ UNCHANGED others
  \/ Build
  \/ GetOrSearch

SpecOrbitReprs == InitOrbitReprs /\ [][NextOrbitReprs]_vars

\* the lowest dart of a set of darts
Lowest(S) == CHOOSE x \in S : \A y \in S : x <= y

\* C13: after build(g, A) the table maps every dart to the lowest dart of
\* its A-orbit, so two darts have equal entries exactly when they lie in
\* one A-orbit; get_or_search answers the same, built or not.
C13_Reprs ==
  /\ last.op = "build" =>
       /\ \A a \in DOMAIN reprs :
            /\ \A d \in Darts(self) : reprs[a][d] = Lowest(Closure(self, d, a))
            /\ \A d, e \in Darts(self) :
                 (reprs[a][d] = reprs[a][e]) <=> (e \in Closure(self, d, a))
       /\ \A a \in Masks, d \in Darts(self) :
            get_or_search(reprs, self, a, d) = get_or_search(OrbitReprs_new, self, a, d)
  /\ last.op = "get_or_search" =>
       last.ret = Lowest(Closure(self, last.args[2], last.args[1]))

\* a lookup in a built table, for a dart that is not the lowest of its
\* orbit, while another mask is still unbuilt
C13_Witness ==
  /\ last.op = "get_or_search"
  /\ last.args[1] \in DOMAIN reprs
  /\ Masks \ DOMAIN reprs # {}
  /\ last.ret # last.args[2]
  /\ \E d \in Darts(self) : d \notin Closure(self, last.args[2], last.args[1])


(***************************************************************************)
(* increase_dimension on the valid maps of dimension 1: any map of a       *)
(* higher dimension here has been grown.                                   *)
(***************************************************************************)
InitDimension ==
  \E nd \in 0 .. MaxObsDarts :
    \E a \in InitAlphas(1, nd) :
      /\ from_alpha(1, a, TRUE) = "Ok"
      /\ dimension = 1
      /\ alpha = a
      /\ deleted = [k \in 1 .. nd |-> FALSE]
      /\ last = Call("from_alpha", <<1>>, "Ok", {})
      /\ NoOthers

NextDimension ==
  \/ Return /\ UNCHANGED others
  \/ IncreaseDimension /\ UNCHANGED others

SpecDimension == InitDimension /\ [][NextDimension]_vars

\* C14: increase_dimension(m) with m >= dimension (and m <= 31) keeps
\* alpha_i(d) for every existing index i and dart d, makes alpha_i(d) = d
\* for every new index i and preserves the orbits of every mask; m below
\* the dimension gives CannotDecreaseDimension and m > 31
\* DimensionTooLarge, and then the map is unchanged.
C14_IncreaseDimension ==
  [][(last'.op = "increase_dimension") =>
       LET m == last'.args[1]
       IN IF m < dimension
          THEN last'.res = "CannotDecreaseDimension" /\ selfNext = self
          ELSE IF m > MAX_DIMENSION
          THEN last'.res = "DimensionTooLarge" /\ selfNext = self
          ELSE /\ last'.res = "Ok"
               /\ dimension' = m
               /\ deleted' = deleted
               /\ Darts(selfNext) = Darts(self)
               /\ \A d \in Darts(self) :
                    /\ \A i \in 0 .. dimension : index(selfNext, d, i) = index(self, d, i)
                    /\ \A i \in (dimension + 1) .. m : index(selfNext, d, i) = d
                    /\ \A a \in Masks :
                         /\ Closure(selfNext, d, a) = Closure(self, d, a)
                         /\ Valid(self) =>
                              Range(orbit(selfNext, d, a)) = Range(orbit(self, d, a))]_vars

\* a map of several linked darts that has been grown by one dimension
C14_Witness ==
  /\ last.op = "increase_dimension"
  /\ last.res = "Ok"
  /\ dimension = 2
  /\ ndarts(self) >= 3
  /\ \E d \in Darts(self) : ~is_free(self, d, 0) /\ ~is_free(self, d, 1)
  /\ \A d \in Darts(self) : is_free(self, d, 2)


\* alpha_i(d) as the map defines it: an index above the dimension is an
\* involution the map does not have yet, the identity
AlphaOf(g, d, i) == IF i <= g.dimension THEN index(g, d, i) ELSE d

\* C15: unsew(d, i) returns Ununsewable and leaves alpha unchanged whenever
\* the all-but-{i-1,i,i+1} orbit of d meets its own alpha_i image (as it
\* does when d is i-free); otherwise it makes every dart of that orbit and
\* its alpha_i partner i-free and changes no alpha_j with j # i.
C15_Unsew ==
  [][(last'.op = "unsew") =>
       LET d == last'.args[1]
           i == last'.args[2]
           S == Closure(self, d, SewMask(i))
           image == {AlphaOf(self, x, i) : x \in S}
       IN IF S \cap image # {}
          THEN last'.res = "Ununsewable" /\ alpha' = alpha
          ELSE /\ last'.res = "Ok"
               /\ \A x \in S \cup image : AlphaOf(selfNext, x, i) = x
               /\ \A x \in Darts(self), j \in (0 .. dimension) \ {i} :
                    index(selfNext, x, j) = index(self, x, j)]_vars


(***************************************************************************)
(* Circular (graph-folding/src/circular.rs): an arena of nodes, each with  *)
(* its data and the indices of its prev and next.  tracking is the Vec v;  *)
(* node n is its element n + 1.                                            *)
(***************************************************************************)
\* most nodes allocated in one list
MaxNodes == 5

Nodes(c) == 0 .. (Len(c) - 1)

\* self[n]
node(c, n) == c[n + 1]

Circular_new == <<>>

add_node(c, data) ==
  LET n == Len(c)
  IN [c |-> Append(c, [data |-> data, prev |-> n, next |-> n]), ret |-> n]

\* mut_data(n), assigned
mut_data(c, n, data) == [c EXCEPT ![n + 1].data = data]

\* splice that leaves the prev of a's old successor as it was
splice_stale_prev(c, a, b) ==
  LET an == node(c, a).next
      bp == node(c, b).prev
      c1 == [c EXCEPT ![a + 1].next = b]
      c2 == [c1 EXCEPT ![b + 1].prev = a]
      c4 == [c2 EXCEPT ![bp + 1].next = an]
  IN [c |-> c4, ret |-> bp]

\* splice returning a's old successor
splice_returns_next(c, a, b) ==
  LET an == node(c, a).next
      bp == node(c, b).prev
      c1 == [c EXCEPT ![a + 1].next = b]
      c2 == [c1 EXCEPT ![b + 1].prev = a]
      c3 == [c2 EXCEPT ![an + 1].prev = bp]
      c4 == [c3 EXCEPT ![bp + 1].next = an]
  IN [c |-> c4, ret |-> an]

\* the four assignments of splice, in the order of the source
splice(c, a, b) ==
  LET an == node(c, a).next
      bp == node(c, b).prev
      c1 == [c EXCEPT ![a + 1].next = b]
      c2 == [c1 EXCEPT ![b + 1].prev = a]
      c3 == [c2 EXCEPT ![an + 1].prev = bp]
      c4 == [c3 EXCEPT ![bp + 1].next = an]
  IN [c |-> c4, ret |-> bp]

\* split with the arguments passed on in the same order
split_same_order(c, a, b) == splice(c, a, b)

split(c, a, b) == splice(c, b, a)

\* the from_fn closure of iter: follow next until start comes again
RECURSIVE iter_from(_, _, _, _)
iter_from(c, start, n, fuel) ==
  LET n1 == node(c, n).next
  IN IF n1 = start THEN <<>>
     ELSE IF fuel = 0 THEN <<Hang>>
     ELSE <<n1>> \o iter_from(c, start, n1, fuel - 1)

iter(c, start) == <<start>> \o iter_from(c, start, start, Len(c))

\* everything but the last call and the Circular
notCircular == <<dimension, alpha, deleted, om, reprs, problem, constraints, frame, folding>>

\* the G-map plays no part
NoMap ==
  /\ dimension = 1
  /\ alpha = <<>>
  /\ deleted = <<>>

InitCircular ==
  /\ NoMap
  /\ last = Call("new", <<>>, "Ok", {})
  /\ tracking = Circular_new
  /\ om = None
  /\ reprs = None
  /\ problem = None
  /\ constraints = None
  /\ frame = None
  /\ NoFolding

AddNode ==
  /\ Ready
  /\ Len(tracking) < MaxNodes
  /\ \E data \in Values :
       LET r == add_node(tracking, data)
       IN /\ tracking' = r.c
          /\ last' = Call("add_node", <<data>>, "Ok", r.ret)
  /\ UNCHANGED notCircular

Splice ==
  /\ Ready
  /\ \E a \in Nodes(tracking), b \in Nodes(tracking) :
       LET r == splice(tracking, a, b)
       IN /\ tracking' = r.c
          /\ last' = Call("splice", <<a, b>>, "Ok", r.ret)
  /\ UNCHANGED notCircular

Split ==
  /\ Ready
  /\ \E a \in Nodes(tracking), b \in Nodes(tracking) :
       LET r == split(tracking, a, b)
       IN /\ tracking' = r.c
          /\ last' = Call("split", <<a, b>>, "Ok", r.ret)
  /\ UNCHANGED notCircular

Iter ==
  /\ Ready
  /\ \E start \in Nodes(tracking) :
       last' = Call("iter", <<start>>, "Ok", iter(tracking, start))
  /\ UNCHANGED tracking
  /\ UNCHANGED notCircular

NextCircular ==
  \/ Return /\ UNCHANGED others
  \/ AddNode
  \/ Splice
  \/ Split
  \/ Iter

SpecCircular == InitCircular /\ [][NextCircular]_vars


next(c, x) == node(c, x).next

prev(c, x) == node(c, x).prev

\* the ring of x: the nodes reached from x along next
RECURSIVE RingFrom(_, _)
RingFrom(c, S) ==
  LET T == S \cup {next(c, x) : x \in S}
  IN IF T = S THEN S ELSE RingFrom(c, T)

RingOf(c, x) == RingFrom(c, {x})

\* the nodes met going from a along next up to and including b
RECURSIVE Segment(_, _, _, _)
Segment(c, a, b, fuel) ==
  IF a = b \/ fuel = 0 THEN {a}
  ELSE {a} \cup Segment(c, next(c, a), b, fuel - 1)

Inverse(c) ==
  \A x \in Nodes(c) :
    /\ next(c, x) \in Nodes(c)
    /\ prev(c, x) \in Nodes(c)
    /\ next(c, prev(c, x)) = x
    /\ prev(c, next(c, x)) = x

\* C16: after any sequence of add_node, splice and split calls, next and
\* prev are mutually inverse permutations of the allocated nodes, so every
\* node lies on exactly one ring.
C16_Rings ==
  /\ Inverse(tracking)
  /\ \A x \in Nodes(tracking) :
       /\ x \in RingOf(tracking, next(tracking, x))
       /\ \A y \in RingOf(tracking, x) : RingOf(tracking, y) = RingOf(tracking, x)

\* five nodes on a ring of three and a ring of two, after a cut
C16_Witness ==
  /\ last.op \in {"splice", "split"}
  /\ Len(tracking) = 5
  /\ \E x, y \in Nodes(tracking) :
       /\ Cardinality(RingOf(tracking, x)) = 3
       /\ Cardinality(RingOf(tracking, y)) = 2

\* C17, as stated: splice(a, b) sets a.next = b and b.prev = a, returns the
\* node that was b.prev, and joins a's ring and b's ring into one ring
\* holding all their nodes.
C17_SpliceJoins ==
  [][(last'.op = "splice") =>
       LET a == last'.args[1]
           b == last'.args[2]
       IN /\ next(tracking', a) = b
          /\ prev(tracking', b) = a
          /\ last'.ret = prev(tracking, b)
          /\ RingOf(tracking', a) = RingOf(tracking, a) \cup RingOf(tracking, b)]_vars

\* C17, amended: splice(a, b) sets a.next = b and b.prev = a and returns
\* the node that was b.prev.  With a and b on different rings the two
\* rings become one ring of all their nodes.  With a and b on one ring
\* that ring is cut in two, the nodes from b round to a and the nodes from
\* a's old successor round to b's old predecessor, and nothing changes
\* when b was a's successor already.
C17_Splice ==
  [][(last'.op = "splice") =>
       LET a == last'.args[1]
           b == last'.args[2]
           an == next(tracking, a)
           bp == prev(tracking, b)
       IN /\ next(tracking', a) = b
          /\ prev(tracking', b) = a
          /\ last'.ret = bp
          /\ IF b \notin RingOf(tracking, a)
             THEN RingOf(tracking', a) = RingOf(tracking, a) \cup RingOf(tracking, b)
             ELSE IF b = an THEN tracking' = tracking
             ELSE /\ RingOf(tracking', a) = Segment(tracking, b, a, Len(tracking))
                  /\ RingOf(tracking', an) = Segment(tracking, an, bp, Len(tracking))
                  /\ RingOf(tracking', a) \cap RingOf(tracking', an) = {}
                  /\ RingOf(tracking', a) \cup RingOf(tracking', an) = RingOf(tracking, a)]_vars

\* a ring of two and a ring of three joined into a ring of five
C17_Witness ==
  /\ last.op = "splice"
  /\ Cardinality(RingOf(tracking, last.args[1])) = 5
  /\ \E x, y, z \in Nodes(tracking) :
       /\ Cardinality({x, y, z, last.args[1], last.args[2]}) = 5
       /\ next(tracking, x) = y
       /\ next(tracking, y) = last.args[1]
       /\ next(tracking, last.args[2]) = z
       /\ next(tracking, z) = x
       /\ x > y
       /\ last.args[2] < z

\* C18: for a and b on one ring, split(a, b) returns the former a.prev and
\* leaves the ring of the nodes met from a along next up to and including
\* b, with b.next = a, and the ring of all remaining nodes in their former
\* cyclic order; iter(start) then yields each node of start's ring exactly
\* once and ends.
C18_Split ==
  /\ [][(last'.op = "split" /\ last'.args[2] \in RingOf(tracking, last'.args[1])) =>
          LET a == last'.args[1]
              b == last'.args[2]
              ap == prev(tracking, a)
              bn == next(tracking, b)
              seg == Segment(tracking, a, b, Len(tracking))
              rest == RingOf(tracking, a) \ seg
          IN /\ last'.ret = ap
             /\ RingOf(tracking', a) = seg
             /\ next(tracking', b) = a
             /\ \A x \in seg \ {b} : next(tracking', x) = next(tracking, x)
             /\ \A x \in rest :
                  /\ RingOf(tracking', x) = rest
                  /\ next(tracking', x) = IF x = ap THEN bn ELSE next(tracking, x)
             /\ \A x \in Nodes(tracking) \ RingOf(tracking, a) :
                  next(tracking', x) = next(tracking, x)
             /\ \A start \in Nodes(tracking) :
                  LET it == iter(tracking', start)
                  IN /\ Hang \notin Range(it)
                     /\ Range(it) = RingOf(tracking', start)
                     /\ Len(it) = Cardinality(Range(it))]_vars
  /\ [](last.op = "iter" =>
          /\ Hang \notin Range(last.ret)
          /\ Range(last.ret) = RingOf(tracking, last.args[1])
          /\ Len(last.ret) = Cardinality(Range(last.ret))
          /\ \A k \in 1 .. (Len(last.ret) - 1) :
               last.ret[k + 1] = next(tracking, last.ret[k]))

\* a ring of five cut into the three nodes from a to b and the two others
C18_Witness ==
  /\ last.op = "split"
  /\ Len(tracking) = 5
  /\ last.args[1] # last.args[2]
  /\ Cardinality(RingOf(tracking, last.args[1])) = 3
  /\ next(tracking, last.args[2]) = last.args[1]
  /\ last.ret \notin RingOf(tracking, last.args[1])
  /\ Cardinality(RingOf(tracking, last.ret)) = 2


(***************************************************************************)
(* Problem and Constraints (graph-folding/src/lib.rs).  The G-map of the   *)
(* Problem is the map of the state (dimension, alpha, deleted); problem    *)
(* holds or, edge_lengths, angle_constraints and exterior_face;            *)
(* constraints holds cg (a map record), clause_sizes, clause_colors and    *)
(* angle_to_cg.  A HashMap is a function on its keys.                      *)
(***************************************************************************)
\* polygons of 2 .. MaxSides sides
MaxSides == 4
\* edge lengths 1 .. MaxLength
MaxLength == 3
\* at most MaxConstrained angles carry a constraint in the input
MaxConstrained == 2

\* examples::regular(n) is modelled for n = RegularN: the octagon
RegularN == 4

\* the single-polygon examples with lengths of their own (big_kite, ...)
\* are modelled for n = PolygonN: the hexagon
PolygonN == 3

\* HashMap::insert
\* a Rust "let x = ...;": the value is computed once and named
let(x, F(_)) == F(x)

Put(m, k, v) == [x \in DOMAIN m \cup {k} |-> IF x = k THEN v ELSE m[x]]

\* an empty HashMap
EmptyMap == [x \in {} |-> None]

\* sew with the pairs linked in one of the orders of the HashMap
sew_in_order(g, i, d0, d1) ==
  sew(g, i, d0, d1, CHOOSE ord \in Orders(sew_pairs(g, i, d0, d1).m01) : TRUE)

\* one_dart_per_cell(i)
one_dart_per_cell(g, i) == one_dart_per_orbit(g, cell(i))

\* ensure_all: build the mask unless it is there
ensure_all(r, g, a) == IF a \in DOMAIN r THEN r ELSE build(r, g, a)

\* unique_orbit_repr over a built mask: the representatives of the darts
\* of l, each once, in the order of l
RECURSIVE unique_orbit_repr(_, _, _, _, _)
unique_orbit_repr(r, a, l, k, seen) ==
  IF k > Len(l) THEN <<>>
  ELSE LET x == r[a][l[k]]
       IN IF x \in seen THEN unique_orbit_repr(r, a, l, k + 1, seen)
          ELSE <<x>> \o unique_orbit_repr(r, a, l, k + 1, seen \cup {x})

orbit_repr_per_incident_orbit(r, g, d, a, b) ==
  unique_orbit_repr(r, a, orbit(g, d, b), 1, {})

\* examples::wrap_exterior, the walk along the boundary: d is a clockwise
\* dart, the walk ends at a vertex with no other 2-free dart or back at
\* start
RECURSIVE interior_boundary(_, _, _, _)
interior_boundary(g, start, d, fuel) ==
  LET c == orbit(g, d, cell(0))
      free == {k \in 1 .. Len(c) : c[k] # d /\ is_free(g, c[k], 2)}
  IN IF free = {} \/ fuel = 0 THEN <<d>>
     ELSE LET n == c[CHOOSE k \in free : \A x \in free : k <= x]
              d1 == index(g, n, 0)
          IN IF d1 = start THEN <<d>>
             ELSE <<d>> \o interior_boundary(g, start, d1, fuel - 1)

\* the sewing loop of wrap_exterior
RECURSIVE wrap_sew(_, _, _, _)
wrap_sew(g, boundary, k, d2) ==
  IF k > Len(boundary) THEN Res("Ok", g)
  ELSE let(sew_in_order(g, 2, boundary[k], d2), LAMBDA r :
         IF r.res # "Ok" THEN Res("panic", g)
         ELSE wrap_sew(r.g, boundary, k + 1, al2(r.g, d2, 1, 0)))

\* examples::wrap_exterior(g, start); ext is the dart returned
wrap_exterior(g, start) ==
  let(interior_boundary(g, index(g, start, 0), index(g, start, 0), ndarts(g)),
      LAMBDA boundary :
        let(add_polygon(g, Len(boundary)), LAMBDA r :
          IF r.res # "Ok" THEN r @@ [ext |-> ndarts(g)]
          ELSE wrap_sew(r.g, boundary, 1, ndarts(g)) @@ [ext |-> ndarts(g)]))

\* the single-polygon examples (kite, trapezoid, regular, ...): a polygon
\* of n sides with its exterior wrapped around it
polygon(n) ==
  LET g0 == [dimension |-> 2, alpha |-> <<>>, deleted |-> <<>>]
      r == add_polygon(g0, n)
  IN wrap_exterior(r.g, 0)

IsFlat(ac, a) == a \in DOMAIN ac /\ ac[a] = "Flat"

IsMountain(ac, a) == a \in DOMAIN ac /\ ac[a] = "Mountain"

\* the filling loop of preprocess_angle_constraints for one vertex
RECURSIVE fill_flat(_, _, _)
fill_flat(ac, angles, k) ==
  IF k > Len(angles) THEN ac
  ELSE IF angles[k] \in DOMAIN ac THEN fill_flat(ac, angles, k + 1)
  ELSE fill_flat(Put(ac, angles[k], "Flat"), angles, k + 1)

\* preprocess_angle_constraints over the vertices vs, from the k-th on
RECURSIVE preprocess_angle_constraints(_, _, _, _, _)
preprocess_angle_constraints(g, r, ac, vs, k) ==
  IF k > Len(vs) THEN [res |-> "Ok", ac |-> ac]
  ELSE LET angles == orbit_repr_per_incident_orbit(r, g, vs[k], ANGLE, VERTEX)
           flats == Cardinality({x \in 1 .. Len(angles) : IsFlat(ac, angles[x])})
           mountains == Cardinality({x \in 1 .. Len(angles) : IsMountain(ac, angles[x])})
       IN IF (flats # 0 /\ flats # 2) \/ mountains > 1 \/ (flats = 2 /\ mountains = 1)
          THEN [res |-> "BadAngleConstraints", ac |-> ac]
          ELSE IF flats = 2 \/ mountains = 1
          THEN preprocess_angle_constraints(g, r, fill_flat(ac, angles, 1), vs, k + 1)
          ELSE preprocess_angle_constraints(g, r, ac, vs, k + 1)

\* Problem::with_exterior
with_exterior(g, edge_lengths, angle_constraints, exterior_face) ==
  IF g.dimension # 2 THEN [res |-> "Nonplanar", problem |-> None]
  ELSE let(ensure_all(ensure_all(OrbitReprs_new, g, ANGLE), g, EDGE), LAMBDA r :
         let(preprocess_angle_constraints(g, r, angle_constraints,
                                          one_dart_per_cell(g, 0), 1), LAMBDA pp :
           IF pp.res # "Ok" THEN [res |-> pp.res, problem |-> None]
           ELSE [res |-> "Ok",
                 problem |-> [or |-> r, edge_lengths |-> edge_lengths,
                              angle_constraints |-> pp.ac,
                              exterior_face |-> exterior_face]]))

\* the edge_lengths of the single-polygon examples: the k-th length of ls
\* goes to the edge of the k-th dart counterclockwise from d
RECURSIVE lengths_along(_, _, _, _, _)
lengths_along(g, or, d, ls, k) ==
  IF k > Len(ls) THEN EmptyMap
  ELSE Put(lengths_along(g, or, al2(g, d, 1, 0), ls, k + 1), or[EDGE][d], ls[k])

\* an empty Constraints: cg is GMap::empty(2)
Constraints_new ==
  [cg |-> [dimension |-> 2, alpha |-> <<>>, deleted |-> <<>>],
   clause_sizes |-> EmptyMap, clause_colors |-> EmptyMap, angle_to_cg |-> EmptyMap]

add_vertex(g, n) == add_cycle(g, 1, 2, n)

\* the first loop of process_vertex: the non-Flat angles met from a round
\* the vertex, counterclockwise
RECURSIVE vertex_nonflat(_, _, _, _)
vertex_nonflat(g, ac, vertex, a) ==
  LET here == IF ~IsFlat(ac, a) THEN <<a>> ELSE <<>>
      a1 == al2(g, a, 2, 1)
  IN IF a1 = vertex THEN here ELSE here \o vertex_nonflat(g, ac, vertex, a1)

\* assign_angles that gives every angle the first dart of the clause
RECURSIVE assign_angles_same_dart(_, _, _, _, _)
assign_angles_same_dart(cg, angle_to_cg, nonflat, k, cv) ==
  IF k > Len(nonflat) THEN angle_to_cg
  ELSE assign_angles_same_dart(cg, Put(angle_to_cg, nonflat[k], cv), nonflat, k + 1, cv)

\* the second loop of process_vertex
RECURSIVE assign_angles(_, _, _, _, _)
assign_angles(cg, angle_to_cg, nonflat, k, cv) ==
  IF k > Len(nonflat) THEN angle_to_cg
  ELSE assign_angles(cg, Put(angle_to_cg, nonflat[k], cv), nonflat, k + 1,
                     al2(cg, cv, 2, 1))

\* process_vertex whose clause counts every non-Flat angle as a mountain
process_vertex_all_mountains(g, p, cs, vertex) ==
  let(vertex_nonflat(g, p.angle_constraints, vertex, vertex), LAMBDA nonflat :
    IF Len(nonflat) = 0 THEN [res |-> "Ok", cs |-> cs]
    ELSE let(add_vertex(cs.cg, Len(nonflat)), LAMBDA r :
           IF r.res # "Ok" THEN [res |-> r.res, cs |-> cs]
           ELSE [res |-> "Ok",
                 cs |-> [cg |-> r.g,
                         clause_sizes |-> Put(cs.clause_sizes, ndarts(cs.cg), Len(nonflat)),
                         clause_colors |-> Put(cs.clause_colors, ndarts(cs.cg), "Blue"),
                         angle_to_cg |-> assign_angles(r.g, cs.angle_to_cg, nonflat, 1,
                                                       ndarts(cs.cg))]]))

process_vertex(g, p, cs, vertex) ==
  let(vertex_nonflat(g, p.angle_constraints, vertex, vertex), LAMBDA nonflat :
    IF Len(nonflat) = 0 THEN [res |-> "Ok", cs |-> cs]
    ELSE let(add_vertex(cs.cg, Len(nonflat)), LAMBDA r :
           IF r.res # "Ok" THEN [res |-> r.res, cs |-> cs]
           ELSE [res |-> "Ok",
                 cs |-> [cg |-> r.g,
                         clause_sizes |-> Put(cs.clause_sizes, ndarts(cs.cg), 1),
                         clause_colors |-> Put(cs.clause_colors, ndarts(cs.cg), "Blue"),
                         angle_to_cg |-> assign_angles(r.g, cs.angle_to_cg, nonflat, 1,
                                                       ndarts(cs.cg))]]))

\* nonflat_lengths, "find nonflat angle to start at": None when the walk is
\* back at face
RECURSIVE nonflat_start(_, _, _, _)
nonflat_start(g, ac, face, a) ==
  IF ~IsFlat(ac, a) THEN a
  ELSE LET a1 == al2(g, a, 1, 0)
       IN IF a1 = face THEN None ELSE nonflat_start(g, ac, face, a1)

\* flat_run that keeps the length of the last edge only
RECURSIVE flat_run_last_edge(_, _, _, _)
flat_run_last_edge(g, p, a, length_counter) ==
  LET l == p.edge_lengths[p.or[EDGE][a]]
  IN IF ~IsFlat(p.angle_constraints, a) THEN [a |-> a, length |-> l]
     ELSE flat_run_last_edge(g, p, al2(g, a, 1, 0), l)

\* nonflat_lengths, the inner loop: add up the edges until a non-Flat angle
RECURSIVE flat_run(_, _, _, _)
flat_run(g, p, a, length_counter) ==
  LET l == length_counter + p.edge_lengths[p.or[EDGE][a]]
  IN IF ~IsFlat(p.angle_constraints, a) THEN [a |-> a, length |-> l]
     ELSE flat_run(g, p, al2(g, a, 1, 0), l)

\* nonflat_lengths, the outer loop
RECURSIVE nonflat_from(_, _, _, _)
nonflat_from(g, p, start, a) ==
  LET r == flat_run(g, p, al2(g, a, 1, 0), 0)
  IN <<<<a, r.length>>>> \o
     (IF r.a = start THEN <<>> ELSE nonflat_from(g, p, start, r.a))

\* nonflat_lengths without the check of the number of corners
nonflat_lengths_any_count(g, p, face) ==
  LET start == nonflat_start(g, p.angle_constraints, face, face)
  IN IF start = None THEN [res |-> "BadAngleConstraints", nonflat |-> <<>>]
     ELSE [res |-> "Ok", nonflat |-> nonflat_from(g, p, start, start)]

nonflat_lengths(g, p, face) ==
  LET start == nonflat_start(g, p.angle_constraints, face, face)
  IN IF start = None THEN [res |-> "BadAngleConstraints", nonflat |-> <<>>]
     ELSE LET nonflat == nonflat_from(g, p, start, start)
          IN IF Len(nonflat) % 2 # 0
             THEN [res |-> "BadAngleConstraints", nonflat |-> <<>>]
             ELSE [res |-> "Ok", nonflat |-> nonflat]

\* the loop of process_face that fills tracking; prev_node is None at first
RECURSIVE fill_tracking(_, _, _, _, _)
fill_tracking(t, angle_to_cg, nonflat, k, prev_node) ==
  IF k > Len(nonflat) THEN [tracking |-> t, head |-> prev_node]
  ELSE LET r == add_node(t, <<angle_to_cg[nonflat[k][1]], nonflat[k][2]>>)
           t1 == IF prev_node = None THEN r.c ELSE splice(r.c, prev_node, r.ret).c
       IN fill_tracking(t1, angle_to_cg, nonflat, k + 1, r.ret)

\* the length a node carries
Length(t, n) == node(t, n).data[2]

\* the alternating sum of check_kawasaki over the nodes it, b the sign
RECURSIVE length_total(_, _, _, _)
length_total(t, it, k, b) ==
  IF k > Len(it) THEN 0
  ELSE (IF b THEN Length(t, it[k]) ELSE 0 - Length(t, it[k])) +
       length_total(t, it, k + 1, ~b)

\* check_kawasaki that looks at the number of edges only
check_kawasaki_parity_only(t, head) ==
  IF Len(iter(t, head)) % 2 # 0 THEN "KawasakiViolation" ELSE "Ok"

check_kawasaki(t, head) ==
  LET it == iter(t, head)
  IN IF Len(it) % 2 # 0 THEN "KawasakiViolation"
     ELSE IF length_total(t, it, 1, TRUE) = 0 THEN "Ok"
     ELSE "KawasakiViolation"

\* find_enclosed_edge_sequence, "find where the length decreases"; start is
\* None when all edges have the same length
RECURSIVE find_decrease(_, _, _, _)
find_decrease(t, head, prev_length, start) ==
  LET l == Length(t, start)
  IN IF prev_length # None /\ l < prev_length THEN [start |-> start, length |-> l]
     ELSE IF start = head /\ prev_length # None THEN [start |-> None, length |-> 0]
     ELSE find_decrease(t, head, l, next(t, start))

\* find_increase that keeps its start when the length falls again
RECURSIVE find_increase_keep_start(_, _, _, _, _)
find_increase_keep_start(t, start, length, end, n) ==
  LET l == Length(t, end)
  IN IF l > length THEN [start |-> start, end |-> end, n |-> n, length |-> length]
     ELSE IF l < length THEN find_increase_keep_start(t, start, l, next(t, end), n + 1)
     ELSE find_increase_keep_start(t, start, length, next(t, end), n + 1)

\* find_enclosed_edge_sequence, "find where length increases"
RECURSIVE find_increase(_, _, _, _, _)
find_increase(t, start, length, end, n) ==
  LET l == Length(t, end)
  IN IF l > length THEN [start |-> start, end |-> end, n |-> n, length |-> length]
     ELSE IF l < length THEN find_increase(t, end, l, next(t, end), 2)
     ELSE find_increase(t, start, length, next(t, end), n + 1)

\* Option::None, as the tuple with no start
NoSequence == [start |-> None, end |-> None, n |-> 0, length |-> 0]

\* find_enclosed_edge_sequence that counts the edges of the run and not
\* the angles on it
find_enclosed_edge_sequence_run_only(t, head) ==
  let(find_decrease(t, head, None, head), LAMBDA s0 :
    IF s0.start = None THEN NoSequence
    ELSE find_increase(t, s0.start, s0.length, s0.start, 0))

find_enclosed_edge_sequence(t, head) ==
  let(find_decrease(t, head, None, head), LAMBDA s0 :
    IF s0.start = None THEN NoSequence
    ELSE find_increase(t, s0.start, s0.length, s0.start, 1))

\* glue_clause over the nodes it of the ring of head
RECURSIVE glue_from(_, _, _, _, _)
glue_from(cg, t, it, k, clause_edge) ==
  IF k > Len(it) THEN Res("Ok", cg)
  ELSE let(sew_in_order(cg, 0, index(cg, node(t, it[k]).data[1], 2), clause_edge),
           LAMBDA r :
             IF r.res # "Ok" THEN Res("panic", cg)
             ELSE glue_from(r.g, t, it, k + 1, al2(r.g, clause_edge, 2, 1)))

glue_clause(cg, t, head, clause) == glue_from(cg, t, iter(t, head), 1, clause)

\* new_clause that leaves the clause unglued
new_clause_unglued(cs, t, head, n, size, color) ==
  let(add_vertex(cs.cg, n), LAMBDA r :
    [res |-> r.res,
     cs |-> [cs EXCEPT !.cg = r.g,
                       !.clause_sizes = Put(cs.clause_sizes, ndarts(cs.cg), size),
                       !.clause_colors = Put(cs.clause_colors, ndarts(cs.cg), color)],
     clause |-> ndarts(cs.cg)])

\* a clause of n variables added to cs with its size and colour and glued
\* to the ring of head: add_vertex, the two inserts and glue_clause
new_clause(cs, t, head, n, size, color) ==
  let(add_vertex(cs.cg, n), LAMBDA r :
    IF r.res # "Ok" THEN [res |-> r.res, cs |-> cs, clause |-> ndarts(cs.cg)]
    ELSE let(glue_clause(r.g, t, head, ndarts(cs.cg)), LAMBDA gl :
           [res |-> gl.res,
            cs |-> [cs EXCEPT !.cg = gl.g,
                              !.clause_sizes = Put(cs.clause_sizes, ndarts(cs.cg), size),
                              !.clause_colors = Put(cs.clause_colors, ndarts(cs.cg), color)],
            clause |-> ndarts(cs.cg)]))

\* resize_edge that adds the three lengths up
resize_edge_sum(cs, sp, x) ==
  let(new_clause(cs, sp.c, x.start, x.n, x.n \div 2, "Red"), LAMBDA c :
    [res |-> c.res, cs |-> c.cs,
     tracking |-> mut_data(sp.c, sp.ret,
                           <<node(sp.c, sp.ret).data[1],
                             Length(sp.c, sp.ret) + x.length + Length(sp.c, x.end)>>),
     head |-> sp.ret])

\* resize_edge that leaves head on the start of the run
resize_edge_head_at_start(cs, sp, x) ==
  let(new_clause(cs, sp.c, x.start, x.n, x.n \div 2, "Red"), LAMBDA c :
    [res |-> c.res, cs |-> c.cs,
     tracking |-> mut_data(sp.c, sp.ret,
                           <<node(sp.c, sp.ret).data[1],
                             Length(sp.c, sp.ret) - x.length + Length(sp.c, x.end)>>),
     head |-> x.start])

\* process_face, the branch "|S| is even" of the loop after the split: sp
\* is what split(start, end) returned
resize_edge(cs, sp, x) ==
  let(new_clause(cs, sp.c, x.start, x.n, x.n \div 2, "Red"), LAMBDA c :
    [res |-> c.res, cs |-> c.cs,
     tracking |-> mut_data(sp.c, sp.ret,
                           <<node(sp.c, sp.ret).data[1],
                             Length(sp.c, sp.ret) - x.length + Length(sp.c, x.end)>>),
     head |-> sp.ret])

\* shrink_even whose clause wants a mountain on every angle of the run
shrink_even_all_mountains(cs, t, x) ==
  let(split(t, x.start, x.end), LAMBDA sp :
    let(new_clause(cs, sp.c, x.start, x.n, x.n, "Red"), LAMBDA c :
      [res |-> c.res, cs |-> c.cs,
       tracking |-> mut_data(sp.c, sp.ret,
                             <<node(sp.c, sp.ret).data[1],
                               Length(sp.c, sp.ret) - x.length + Length(sp.c, x.end)>>),
       head |-> sp.ret]))

\* shrink_even that leaves the length of the node before the run as it was
shrink_even_keep_length(cs, t, x) ==
  let(split(t, x.start, x.end), LAMBDA sp :
    let(new_clause(cs, sp.c, x.start, x.n, x.n \div 2, "Red"), LAMBDA c :
      [res |-> c.res, cs |-> c.cs, tracking |-> sp.c, head |-> sp.ret]))

\* process_face, the branch "|S| is even" of the loop
shrink_even(cs, t, x) == resize_edge(cs, split(t, x.start, x.end), x)

\* replace_angles that adds the new node and leaves it on a ring of its own
replace_angles_no_splice(c, cg, odd_clause_2, an, start_prev) ==
  [res |-> "Ok",
   cs |-> [c.cs EXCEPT !.cg = cg,
                       !.clause_sizes = Put(c.cs.clause_sizes, odd_clause_2, 1),
                       !.clause_colors = Put(c.cs.clause_colors, odd_clause_2, "Blue")],
   tracking |-> an.c,
   head |-> start_prev]

\* process_face, "replace old angles with new angle": cg is the graph
\* with both new clauses, an the new node
replace_angles(c, cg, odd_clause_2, an, start_prev) ==
  [res |-> "Ok",
   cs |-> [c.cs EXCEPT !.cg = cg,
                       !.clause_sizes = Put(c.cs.clause_sizes, odd_clause_2, 1),
                       !.clause_colors = Put(c.cs.clause_colors, odd_clause_2, "Blue")],
   tracking |-> splice(an.c, start_prev, an.ret).c,
   head |-> start_prev]

\* process_face, "add second new clause": c is the first new clause
second_clause(c, sp, x) ==
  IF c.res # "Ok" THEN [res |-> c.res, cs |-> c.cs, tracking |-> sp.c, head |-> sp.ret]
  ELSE let(add_vertex(c.cs.cg, 2), LAMBDA r2 :
         let(sew_in_order(r2.g, 0, index(r2.g, c.clause, 1), ndarts(c.cs.cg)), LAMBDA sw :
           IF r2.res # "Ok" \/ sw.res # "Ok"
           THEN [res |-> "panic", cs |-> c.cs, tracking |-> sp.c, head |-> sp.ret]
           ELSE replace_angles(c, sw.g, ndarts(c.cs.cg),
                               add_node(sp.c, <<al2(sw.g, ndarts(c.cs.cg), 2, 1),
                                                Length(sp.c, x.end)>>),
                               sp.ret)))

\* process_face, the branch "|S| is odd" of the loop after the split
first_clause(cs, sp, x) ==
  second_clause(new_clause(cs, sp.c, x.start, x.n + 1, (x.n + 1) \div 2, "Red"), sp, x)

\* process_face, the branch "|S| is odd" of the loop
shrink_odd(cs, t, x) == first_clause(cs, split(t, x.start, x.end), x)

\* terminal_clause with one mountain more on the exterior face
terminal_clause_more_mountains(cs, t, head, exterior) ==
  let(Len(iter(t, head)), LAMBDA n_remaining :
    let(IF exterior THEN n_remaining \div 2 + 2 ELSE n_remaining \div 2 - 1,
        LAMBDA mountains :
          IF mountains < 0 THEN [res |-> "panic", cs |-> cs, clause |-> None]
          ELSE new_clause(cs, t, head, n_remaining, mountains, "Red")))

\* terminal_clause that counts the exterior face as an interior one
terminal_clause_no_exterior(cs, t, head, exterior) ==
  let(Len(iter(t, head)), LAMBDA n_remaining :
    IF n_remaining \div 2 - 1 < 0 THEN [res |-> "panic", cs |-> cs, clause |-> None]
    ELSE new_clause(cs, t, head, n_remaining, n_remaining \div 2 - 1, "Red"))

\* process_face after the loop: the clause of the remaining ring.  usize:
\* n_remaining / 2 - 1 below zero is an overflow
terminal_clause(cs, t, head, exterior) ==
  LET n_remaining == Len(iter(t, head))
      mountains == IF exterior THEN n_remaining \div 2 + 1 ELSE n_remaining \div 2 - 1
  IN IF mountains < 0 THEN [res |-> "panic", cs |-> cs, clause |-> None]
     ELSE new_clause(cs, t, head, n_remaining, mountains, "Red")

\* ------------------------------------------------------------------
\* Problem::with_exterior and Problem::constraint_graph on the polygons
\* of the examples.  dimension, alpha and deleted hold the problem's g;
\* frame is where constraint_graph stands: pc the position, vertices and
\* faces the two enumerations, k the index into the one being walked,
\* head and exterior the locals of process_face.

Angles == {"Flat", "Valley", "Mountain"}

\* the representatives an OrbitReprs holds for the orbits of a
Reprs(r, a) == {r[a][d] : d \in DOMAIN r[a]}

\* the maps of at most MaxConstrained keys out of ks
Constrained(ks) ==
  UNION {[S -> Angles] : S \in {T \in SUBSET ks : Cardinality(T) <= MaxConstrained}}

Frame(pc, vertices, faces, k, head, exterior) ==
  [pc |-> pc, vertices |-> vertices, faces |-> faces, k |-> k,
   head |-> head, exterior |-> exterior]

At(pc) == frame.pc = pc

\* GMap::empty(2), as the examples begin
InitGraph ==
  /\ dimension = 2
  /\ alpha = <<>>
  /\ deleted = <<>>
  /\ last = Call("empty", <<2>>, "Ok", {})
  /\ frame = Frame("polygon", <<>>, <<>>, 0, None, FALSE)
  /\ om = None
  /\ reprs = None
  /\ tracking = None
  /\ problem = None
  /\ constraints = None
  /\ NoFolding

notGraph == <<dimension, alpha, deleted, om, reprs, folding>>

\* constraint_graph returned Err(res), or panicked: the constraints built
\* so far are dropped with the frame
Fail(res) ==
  /\ last' = Call("constraint_graph", <<>>, res, {})
  /\ constraints' = None
  /\ tracking' = None
  /\ frame' = [frame EXCEPT !.pc = "done"]

\* the examples' g.add_polygon(n) and wrap_exterior(&mut g, start)
Polygon ==
  /\ At("polygon")
  /\ \E n \in 2 .. MaxSides :
       let(polygon(n), LAMBDA p :
         /\ Set(p.g)
         /\ last' = Call("polygon", <<n>>, p.res, p.ext)
         /\ frame' = [frame EXCEPT !.pc = IF p.res = "Ok" THEN "with_exterior" ELSE "done"])
  /\ UNCHANGED <<om, reprs, tracking, problem, constraints, folding>>

\* examples::regular(RegularN): the polygon of 2 * RegularN sides of
\* length 1, with no angle constraint
Regular ==
  /\ At("polygon")
  /\ let(polygon(2 * RegularN), LAMBDA p :
       let(ensure_all(OrbitReprs_new, p.g, EDGE), LAMBDA or :
         let(with_exterior(p.g,
                           lengths_along(p.g, or, 0, [k \in 1 .. 2 * RegularN |-> 1], 1),
                           EmptyMap, p.ext),
             LAMBDA r :
               /\ Set(p.g)
               /\ problem' = r.problem
               /\ last' = Call("regular", <<RegularN>>, r.res, {})
               /\ frame' = [frame EXCEPT !.pc = IF r.res = "Ok" THEN "constraint_graph"
                                                ELSE "done"])))
  /\ UNCHANGED <<om, reprs, tracking, constraints, folding>>

\* a single-polygon example such as examples::big_kite(PolygonN): the
\* polygon of 2 * PolygonN sides with one length to each edge and no angle
\* constraint
SinglePolygon ==
  /\ At("polygon")
  /\ let(polygon(2 * PolygonN), LAMBDA p :
       let(ensure_all(OrbitReprs_new, p.g, EDGE), LAMBDA or :
         \E ls \in [1 .. 2 * PolygonN -> 1 .. MaxLength] :
           let(with_exterior(p.g, lengths_along(p.g, or, 0, ls, 1), EmptyMap, p.ext),
               LAMBDA r :
                 /\ Set(p.g)
                 /\ problem' = r.problem
                 /\ last' = Call("single_polygon", <<ls>>, r.res, {})
                 /\ frame' = [frame EXCEPT !.pc = IF r.res = "Ok" THEN "constraint_graph"
                                                  ELSE "done"])))
  /\ UNCHANGED <<om, reprs, tracking, constraints, folding>>

\* g.increase_dimension(3) before the problem is made: a map that is not
\* planar
Raise ==
  /\ At("with_exterior")
  /\ dimension = 2
  /\ let(increase_dimension(self, 3), LAMBDA r :
       /\ Set(r.g)
       /\ last' = Call("increase_dimension", <<3>>, r.res, last.ret))
  /\ UNCHANGED <<om, reprs, tracking, problem, constraints, frame, folding>>

\* the lengths are keyed by the edges' representatives and the angle
\* constraints by the angles', as in the examples
WithExterior ==
  /\ At("with_exterior")
  /\ let(ensure_all(ensure_all(OrbitReprs_new, self, ANGLE), self, EDGE), LAMBDA or :
       \E edge_lengths \in [Reprs(or, EDGE) -> 1 .. MaxLength],
          angle_constraints \in Constrained(Reprs(or, ANGLE)) :
         let(with_exterior(self, edge_lengths, angle_constraints, last.ret), LAMBDA r :
           /\ problem' = r.problem
           /\ last' = Call("with_exterior", <<edge_lengths, angle_constraints>>, r.res, {})
           /\ frame' = [frame EXCEPT !.pc = IF r.res = "Ok" THEN "constraint_graph"
                                            ELSE "done"]))
  /\ UNCHANGED <<constraints, tracking>>
  /\ UNCHANGED notGraph

\* constraint_graph up to its first loop
ConstraintGraph ==
  /\ At("constraint_graph")
  /\ constraints' = Constraints_new
  /\ frame' = Frame("vertices", one_dart_per_cell(self, 0), one_dart_per_cell(self, 2),
                    1, None, FALSE)
  /\ last' = Call("constraint_graph", <<>>, "Ok", {})
  /\ UNCHANGED <<problem, tracking>>
  /\ UNCHANGED notGraph

\* one turn of "for vertex in self.g.one_dart_per_cell(0)"
ProcessVertex ==
  /\ At("vertices")
  /\ let(process_vertex(self, problem, constraints, frame.vertices[frame.k]), LAMBDA r :
       IF r.res # "Ok" THEN Fail("panic")
       ELSE /\ constraints' = r.cs
            /\ frame' = IF frame.k < Len(frame.vertices)
                        THEN [frame EXCEPT !.k = frame.k + 1]
                        ELSE [frame EXCEPT !.pc = "faces", !.k = 1]
            /\ last' = Call("process_vertex", <<frame.vertices[frame.k]>>, "Ok", {})
            /\ UNCHANGED tracking)
  /\ UNCHANGED problem
  /\ UNCHANGED notGraph

\* process_face up to its loop
BeginFace ==
  /\ At("faces")
  /\ let(nonflat_lengths(self, problem, frame.faces[frame.k]), LAMBDA nl :
       IF nl.res # "Ok" THEN Fail(nl.res)
       ELSE let(fill_tracking(Circular_new, constraints.angle_to_cg, nl.nonflat, 1, None),
                LAMBDA ft :
                  let(check_kawasaki(ft.tracking, ft.head), LAMBDA kw :
                    IF kw # "Ok" THEN Fail(kw)
                    ELSE /\ tracking' = ft.tracking
                         /\ frame' = [frame EXCEPT
                                        !.pc = "loop", !.head = ft.head,
                                        !.exterior = (frame.faces[frame.k] =
                                                      problem.exterior_face)]
                         /\ last' = Call("check_kawasaki", <<frame.faces[frame.k]>>, "Ok", {})
                         /\ UNCHANGED constraints)))
  /\ UNCHANGED problem
  /\ UNCHANGED notGraph

\* what a turn of the loop of process_face leaves
Shrunk(r, n) ==
  IF r.res # "Ok" THEN Fail("panic")
  ELSE /\ constraints' = r.cs
       /\ tracking' = r.tracking
       /\ frame' = [frame EXCEPT !.head = r.head]
       /\ last' = Call("shrink", <<frame.faces[frame.k], n>>, "Ok", {})

ShrinkEven ==
  /\ At("loop")
  /\ let(find_enclosed_edge_sequence(tracking, frame.head), LAMBDA x :
       /\ x # NoSequence
       /\ x.n % 2 = 0
       /\ Shrunk(shrink_even(constraints, tracking, x), x.n))
  /\ UNCHANGED problem
  /\ UNCHANGED notGraph

ShrinkOdd ==
  /\ At("loop")
  /\ let(find_enclosed_edge_sequence(tracking, frame.head), LAMBDA x :
       /\ x # NoSequence
       /\ x.n % 2 # 0
       /\ Shrunk(shrink_odd(constraints, tracking, x), x.n))
  /\ UNCHANGED problem
  /\ UNCHANGED notGraph

\* process_face after its loop, and the end of constraint_graph after the
\* last face
EndFace ==
  /\ At("loop")
  /\ find_enclosed_edge_sequence(tracking, frame.head) = NoSequence
  /\ let(terminal_clause(constraints, tracking, frame.head, frame.exterior), LAMBDA r :
       IF r.res # "Ok" THEN Fail("panic")
       ELSE /\ constraints' = r.cs
            /\ tracking' = None
            /\ IF frame.k < Len(frame.faces)
               THEN /\ frame' = [frame EXCEPT !.pc = "faces", !.k = frame.k + 1]
                    /\ last' = Call("process_face", <<frame.faces[frame.k]>>, "Ok", {})
               ELSE /\ frame' = [frame EXCEPT !.pc = "done"]
                    /\ last' = Call("constraint_graph", <<>>, "Ok", {}))
  /\ UNCHANGED problem
  /\ UNCHANGED notGraph

NextGraph ==
  \/ Polygon
  \/ Regular
  \/ SinglePolygon
  \/ Raise
  \/ WithExterior
  \/ ConstraintGraph
  \/ ProcessVertex
  \/ BeginFace
  \/ ShrinkEven
  \/ ShrinkOdd
  \/ EndFace

SpecGraph == InitGraph /\ [][NextGraph]_vars

\* constraint_graph returned Ok(constraints)
Built == frame.pc = "done" /\ last.op = "constraint_graph" /\ last.res = "Ok"

\* the clauses of colour color that the variable of dart d touches: a
\* clause is a vertex of cg, named by the dart add_vertex returned, and a
\* variable is an edge of cg
Incident(cs, d, color) ==
  {c \in DOMAIN cs.clause_colors :
     /\ cs.clause_colors[c] = color
     /\ \E e \in Range(orbit(cs.cg, d, EDGE)) : c \in Range(orbit(cs.cg, e, VERTEX))}

\* C19: after constraint_graph succeeded, every variable (edge of cg) is
\* incident to exactly one Blue clause and exactly one Red clause, and no
\* dart of cg is left 0-free.
C19_Variables ==
  Built =>
    \A d \in Darts(constraints.cg) :
      /\ ~is_free(constraints.cg, d, 0)
      /\ Cardinality(Incident(constraints, d, "Blue")) = 1
      /\ Cardinality(Incident(constraints, d, "Red")) = 1

\* a graph was built in which the loop of process_face added clauses: there
\* are more clauses than vertices and faces
C19_Witness ==
  /\ Built
  /\ Cardinality(DOMAIN constraints.clause_colors) > Len(frame.vertices) + Len(frame.faces)

\* constraint_graph returned, with Ok or with an error
Returned == frame.pc = "done" /\ last.op = "constraint_graph"

\* the non-Flat corners of face in counterclockwise order, each with its
\* effective edge length: the edges up to the next non-Flat corner
Corners(face) ==
  LET start == nonflat_start(self, problem.angle_constraints, face, face)
  IN IF start = None THEN <<>> ELSE nonflat_from(self, problem, start, start)

RECURSIVE SignedSum(_, _)
SignedSum(cs, k) ==
  IF k > Len(cs) THEN 0
  ELSE (IF k % 2 = 1 THEN cs[k][2] ELSE 0 - cs[k][2]) + SignedSum(cs, k + 1)

\* the face has a positive even number of non-Flat corners and its
\* alternating signed sum of effective edge lengths is not zero
Unbalanced(face) ==
  /\ Len(Corners(face)) > 0
  /\ Len(Corners(face)) % 2 = 0
  /\ SignedSum(Corners(face), 1) # 0

\* the face has no non-Flat corner or an odd number of them
BadCorners(face) == Len(Corners(face)) % 2 = 1 \/ Len(Corners(face)) = 0

\* the faces constraint_graph rejects, as indices into its enumeration
Rejected == {k \in 1 .. Len(frame.faces) :
               Unbalanced(frame.faces[k]) \/ BadCorners(frame.faces[k])}

FirstRejected == CHOOSE k \in Rejected : \A x \in Rejected : k <= x

\* C20 as stated: if any face's alternating signed sum of effective edge
\* lengths is nonzero, constraint_graph returns KawasakiViolation and the
\* caller receives no Constraints value.
C20_AnyFace ==
  (Returned /\ \E k \in 1 .. Len(frame.faces) : Unbalanced(frame.faces[k]))
    => (last.res = "KawasakiViolation" /\ constraints = None)

\* C20, amended: constraint_graph fails at the first face it rejects, with
\* KawasakiViolation if that face's alternating signed sum is nonzero and
\* with BadAngleConstraints if its non-Flat corners are none or odd in
\* number; either way the caller receives no Constraints value.
C20_FirstFace ==
  (Returned /\ Rejected # {})
    => /\ last.res = IF Unbalanced(frame.faces[FirstRejected])
                     THEN "KawasakiViolation" ELSE "BadAngleConstraints"
       /\ constraints = None
       /\ frame.k = FirstRejected

\* KawasakiViolation at the second face, after every vertex and the first
\* face went into the graph
C20_Witness ==
  /\ Returned
  /\ last.res = "KawasakiViolation"
  /\ frame.k = 2
  /\ Unbalanced(frame.faces[2])
  /\ constraints = None

\* the number of variables on clause c: the edges of cg at the vertex c
Variables(cs, c) == Cardinality(Range(orbit(cs.cg, c, VERTEX))) \div 2

\* C21: for every clause c of a built constraint graph, clause_sizes[c] is
\* at most the number of variables on c; the count of the terminal clause
\* never underflows (no run of constraint_graph panics).
C21_ClauseSizes ==
  /\ last.res # "panic"
  /\ Built =>
       \A c \in DOMAIN constraints.clause_sizes :
         /\ constraints.clause_sizes[c] >= 0
         /\ constraints.clause_sizes[c] <= Variables(constraints, c)

\* a built graph with both extremes: an exterior terminal clause of two
\* variables and two mountains, and an interior one with no mountain
C21_Witness ==
  /\ Built
  /\ \E c \in DOMAIN constraints.clause_sizes :
       /\ constraints.clause_colors[c] = "Red"
       /\ Variables(constraints, c) = 2
       /\ constraints.clause_sizes[c] = 2
  /\ \E c \in DOMAIN constraints.clause_sizes :
       /\ constraints.clause_colors[c] = "Red"
       /\ Variables(constraints, c) = 2
       /\ constraints.clause_sizes[c] = 0

\* the clauses of colour color
Clauses(cs, color) == {c \in DOMAIN cs.clause_colors : cs.clause_colors[c] = color}

RECURSIVE SumOver(_, _)
SumOver(S, f) ==
  IF S = {} THEN 0
  ELSE LET x == CHOOSE y \in S : TRUE IN f[x] + SumOver(S \ {x}, f)

\* the angles of the problem that are not Flat after preprocessing
NonFlatAngles ==
  {a \in Reprs(problem.or, ANGLE) : ~IsFlat(problem.angle_constraints, a)}

\* the Blue clauses process_vertex made: those an angle was assigned to
VertexClauses ==
  {c \in Clauses(constraints, "Blue") :
     \E a \in DOMAIN constraints.angle_to_cg :
       constraints.angle_to_cg[a] \in Range(orbit(constraints.cg, c, VERTEX))}

\* the vertices with a non-Flat angle
NonFlatVertices ==
  {k \in 1 .. Len(frame.vertices) :
     \E a \in NonFlatAngles : a \in Range(orbit(self, frame.vertices[k], VERTEX))}

\* C22 as stated: after constraint_graph succeeded, the sum of clause_sizes
\* over the Blue clauses equals the number of non-Flat angles of the
\* problem after propagation.
C22_BlueSum ==
  Built => SumOver(Clauses(constraints, "Blue"), constraints.clause_sizes)
             = Cardinality(NonFlatAngles)

\* C22, amended: every Blue clause has size 1, so the sum of clause_sizes
\* over the Blue clauses is their number; process_vertex made one Blue
\* clause per vertex with a non-Flat angle, and it is the number of
\* variables on these clauses that equals the number of non-Flat angles,
\* each of which has its dart in angle_to_cg.
C22_BlueClauses ==
  Built =>
    /\ \A c \in Clauses(constraints, "Blue") : constraints.clause_sizes[c] = 1
    /\ Cardinality(VertexClauses) = Cardinality(NonFlatVertices)
    /\ SumOver(VertexClauses, [c \in VertexClauses |-> Variables(constraints, c)])
         = Cardinality(NonFlatAngles)
    /\ DOMAIN constraints.angle_to_cg = NonFlatAngles

\* a built graph with a Blue clause that no vertex made, on a problem
\* whose vertices have two non-Flat angles each
C22_Witness ==
  /\ Built
  /\ Clauses(constraints, "Blue") # VertexClauses
  /\ Cardinality(NonFlatAngles) = 2 * Cardinality(NonFlatVertices)

\* the angles at the k-th vertex of g, as their representatives
AnglesAt(k) ==
  {a \in Reprs(ensure_all(OrbitReprs_new, self, ANGLE), ANGLE) :
     a \in Range(orbit(self, one_dart_per_cell(self, 0)[k], VERTEX))}

\* how many of the angles as the map ac constrains to angle
Count(ac, as, angle) == Cardinality({a \in as : a \in DOMAIN ac /\ ac[a] = angle})

\* the vertex whose angles are as is one with_exterior rejects under ac
Inconsistent(ac, as) ==
  \/ Count(ac, as, "Flat") \notin {0, 2}
  \/ Count(ac, as, "Mountain") > 1
  \/ (Count(ac, as, "Flat") = 2 /\ Count(ac, as, "Mountain") = 1)

\* C23: with_exterior rejects with BadAngleConstraints every vertex with F
\* not in {0,2}, or M > 1, or F = 2 and M = 1; otherwise, when F = 2 or
\* M = 1, every other angle at that vertex is Flat after preprocessing, and
\* when neither holds the constraint map is unchanged at that vertex.
C23_Preprocess ==
  last.op = "with_exterior" =>
    LET ac == last.args[2]
        vs == 1 .. Len(one_dart_per_cell(self, 0))
    IN /\ (last.res = "BadAngleConstraints") <=> (\E k \in vs : Inconsistent(ac, AnglesAt(k)))
       /\ last.res = "Ok" =>
            \A k \in vs :
              IF Count(ac, AnglesAt(k), "Flat") = 2 \/ Count(ac, AnglesAt(k), "Mountain") = 1
              THEN \A a \in AnglesAt(k) :
                     \/ (a \in DOMAIN ac /\ ac[a] \in {"Flat", "Mountain"})
                     \/ IsFlat(problem.angle_constraints, a)
              ELSE \A a \in AnglesAt(k) :
                     /\ (a \in DOMAIN problem.angle_constraints) = (a \in DOMAIN ac)
                     /\ a \in DOMAIN ac => problem.angle_constraints[a] = ac[a]

\* C24 as stated: constraint_graph returns BadAngleConstraints for any face
\* that has no non-Flat corner or an odd number of them, and with_exterior
\* returns Nonplanar for any G-map whose dimension is not 2.
C24_AnyFace ==
  /\ (Returned /\ \E k \in 1 .. Len(frame.faces) : BadCorners(frame.faces[k]))
       => last.res = "BadAngleConstraints"
  /\ (last.op = "with_exterior" /\ dimension # 2) => last.res = "Nonplanar"

\* C24, amended: constraint_graph returns BadAngleConstraints when the
\* first face it rejects has no non-Flat corner or an odd number of them
\* (a face with a nonzero alternating sum before it gives
\* KawasakiViolation), and with_exterior returns Nonplanar and no Problem
\* for any G-map whose dimension is not 2.
C24_Errors ==
  /\ (Returned /\ Rejected # {} /\ BadCorners(frame.faces[FirstRejected]))
       => (last.res = "BadAngleConstraints" /\ frame.k = FirstRejected)
  /\ (last.op = "with_exterior" /\ dimension # 2)
       => (last.res = "Nonplanar" /\ problem = None)
  /\ (last.op = "with_exterior" /\ last.res = "Nonplanar") => dimension # 2

\* BadAngleConstraints at the second face, the first having gone into the
\* graph
C24_Witness ==
  /\ Returned
  /\ last.res = "BadAngleConstraints"
  /\ frame.k = 2
  /\ BadCorners(frame.faces[2])

\* with_exterior returned Nonplanar
C24_Nonplanar == last.op = "with_exterior" /\ last.res = "Nonplanar"

\* constraint_graph was called on a Problem
Called == frame.pc \in {"vertices", "faces", "loop", "done"} /\ last.op # "with_exterior"

\* the problem is the polygon example with the lengths ls and no angle
\* constraint
Example(ls) ==
  /\ Called
  /\ ndarts(self) = 4 * Len(ls)
  /\ problem.angle_constraints = EmptyMap
  /\ problem.edge_lengths = lengths_along(self, problem.or, 0, ls, 1)

\* the Red clauses as (first dart, variables, mountains), in the order
\* they were added
Red == {<<c, Variables(constraints, c), constraints.clause_sizes[c]>> :
          c \in Clauses(constraints, "Red")}

\* the Blue clauses the shrink loop added
Auxiliary == Clauses(constraints, "Blue") \ VertexClauses

\* the Red clauses as (variables, mountains), by the order they were added
RECURSIVE InOrder(_)
InOrder(R) ==
  IF R = {} THEN <<>>
  ELSE LET x == CHOOSE y \in R : \A z \in R : y[1] <= z[1]
       IN <<<<x[2], x[3]>>>> \o InOrder(R \ {x})

kite == <<1, 1, 2, 2>>

trapezoid == <<1, 2, 3, 2>>

\* C25 as stated: on the kite constraint_graph succeeds, the interior face
\* contributes one Red clause only, a terminal clause of 4 variables with
\* mountain-count 1, and the exterior face one Red clause only, a terminal
\* clause of 4 variables with mountain-count 3.
C25_KiteTerminalOnly ==
  (Example(kite) /\ Returned) =>
    /\ last.res = "Ok"
    /\ InOrder(Red) = << <<4, 1>>, <<4, 3>> >>

\* C25, amended: on the kite constraint_graph succeeds and the shrink loop
\* runs once on each face, over the three angles on the two edges of
\* length 1 (odd branch): each face contributes a Red clause of 4
\* variables with mountain-count 2, an auxiliary Blue clause of 2
\* variables, and a terminal Red clause of 2 variables, with
\* mountain-count 0 on the interior face and 2 on the exterior face.
C25_KiteShrinks ==
  /\ (Example(kite) /\ last.op = "shrink") => last.args[2] = 3
  /\ (Example(kite) /\ Returned) =>
       /\ last.res = "Ok"
       /\ InOrder(Red) = << <<4, 2>>, <<2, 0>>, <<4, 2>>, <<2, 2>> >>
       /\ Cardinality(Auxiliary) = 2
       /\ \A c \in Auxiliary : Variables(constraints, c) = 2

\* constraint_graph returned on the kite
C25_Witness == Example(kite) /\ Built /\ Cardinality(Red) = 4

\* C26 as stated: on the trapezoid every face passes Kawasaki and the
\* shrink loop fires once, on the run of length 1, by the odd branch: a Red
\* clause of 2 variables with mountain-count 1 and an auxiliary Blue clause
\* of 2 variables, and then the terminal clause.
C26_TrapezoidOdd ==
  /\ (Example(trapezoid) /\ last.op = "shrink") => last.args[2] % 2 = 1
  /\ (Example(trapezoid) /\ Returned) =>
       /\ last.res = "Ok"
       /\ InOrder(Red)[1] = <<2, 1>>
       /\ Len(InOrder(Red)) = 4
       /\ Cardinality(Auxiliary) = 2
       /\ \A c \in Auxiliary : Variables(constraints, c) = 2

\* C26, amended: on the trapezoid every face passes Kawasaki and the
\* shrink loop fires once per face, on the two angles of the edge of
\* length 1, by the even branch: a Red clause of 2 variables with
\* mountain-count 1 and no auxiliary Blue clause, and then the terminal
\* clause, of 2 variables.
C26_TrapezoidEven ==
  /\ (Example(trapezoid) /\ last.op = "shrink") => last.args[2] = 2
  /\ (Example(trapezoid) /\ Returned) =>
       /\ last.res = "Ok"
       /\ InOrder(Red) = << <<2, 1>>, <<2, 0>>, <<2, 1>>, <<2, 2>> >>
       /\ Auxiliary = {}

\* the shrink loop ran on the exterior face of the trapezoid
C26_Witness ==
  /\ Example(trapezoid)
  /\ last.op = "shrink"
  /\ frame.k = 2
  /\ Cardinality(Red) = 3

\* the face constraint_graph stands on
ThisFace == frame.faces[frame.k]

\* process_face is about to enter its loop on a face whose effective edge
\* lengths are all equal
EqualLengths ==
  /\ At("loop")
  /\ last.op = "check_kawasaki"
  /\ \A i, j \in 1 .. Len(Corners(ThisFace)) : Corners(ThisFace)[i][2] = Corners(ThisFace)[j][2]

\* the step ends the face with one new clause: Red, on as many variables
\* as the face has non-Flat corners, with mountain-count size/2 - 1 on an
\* interior face and size/2 + 1 on the exterior face
TerminalOnly ==
  LET new == DOMAIN constraints'.clause_colors \ DOMAIN constraints.clause_colors
      size == Len(Corners(ThisFace))
  IN /\ last'.op \in {"process_face", "constraint_graph"}
     /\ last'.res = "Ok"
     /\ Cardinality(new) = 1
     /\ \A c \in new :
          /\ constraints'.clause_colors[c] = "Red"
          /\ Variables(constraints', c) = size
          /\ constraints'.clause_sizes[c] =
               IF ThisFace = problem.exterior_face THEN size \div 2 + 1 ELSE size \div 2 - 1

\* constraint_graph returned on examples::regular(RegularN)
RegularBuilt ==
  /\ Built
  /\ ndarts(self) = 8 * RegularN
  /\ \A e \in DOMAIN problem.edge_lengths : problem.edge_lengths[e] = 1

\* C27: a face whose effective edge lengths are all equal goes through no
\* turn of the shrink loop and emits exactly one Red clause, of as many
\* variables as it has non-Flat corners, with mountain-count size/2 - 1 if
\* interior and size/2 + 1 if exterior; on the regular 2n-gon these are a
\* clause of 2n variables with count n - 1 and one of 2n variables with
\* count n + 1 (3 and 5 on the octagon).
C27_EqualLengths ==
  /\ [][EqualLengths => TerminalOnly]_vars
  /\ [](RegularBuilt =>
         /\ InOrder(Red) = << <<2 * RegularN, RegularN - 1>>,
                              <<2 * RegularN, RegularN + 1>> >>
         /\ Auxiliary = {})

\* constraint_graph returned on the regular octagon with its two clauses
C27_Witness ==
  /\ RegularBuilt
  /\ RegularN = 4
  /\ InOrder(Red) = << <<8, 3>>, <<8, 5>> >>

(***************************************************************************)
(* folding: CreasePattern::from reads a FOLD record into a G-map with the  *)
(* vertex coordinates and the fold angles, and FoldedState::from folds it  *)
(* from a fixed face.  A HashMap is a function over its keys; an OrbitMap  *)
(* is its indices with such a map.  The coordinates are integers and the   *)
(* fold angles -180, 0 and 180 degrees (flat foldings): the isometries are *)
(* then integer matrices with integer translations, and two of them differ *)
(* by more than ISO_ANGLE_EPSILON or ISO_LENGTH_EPSILON iff they differ.   *)
(***************************************************************************)
\* faces of the FOLD records read
MaxFaces == 4

OrbitMap_over_cells(i) == [indices |-> cell(i), map |-> EmptyMap]

\* OrbitMap::insert that writes the entry of k alone
OrbitMap_insert_key_only(m, g, k, v) ==
  [m EXCEPT !.map = [d \in DOMAIN m.map \cup {k} |-> IF d = k THEN v ELSE m.map[d]]]

\* OrbitMap::insert into a map kept by keys
OrbitMap_insert(m, g, k, v) ==
  let(Range(orbit(g, k, m.indices)), LAMBDA o :
    [m EXCEPT !.map = [d \in DOMAIN m.map \cup o |-> IF d \in o THEN v ELSE m.map[d]]])

\* the state of CreasePattern::from as its loops run; res is "Ok" until an
\* error returns
Ingest_new ==
  [res |-> "Ok", g |-> [dimension |-> 2, alpha |-> <<>>, deleted |-> <<>>],
   face_to_dart |-> EmptyMap, edge_to_dart |-> EmptyMap, vertex_to_dart |-> EmptyMap,
   orientation |-> EmptyMap]

\* from_sides that sews the edge to the other edge's dart as it is, not
\* reversed
RECURSIVE from_sides_no_reverse(_, _, _, _, _)
from_sides_no_reverse(st, vertices, edges, i, d) ==
  IF i > Min(Len(vertices), Len(edges)) THEN st
  ELSE let([st EXCEPT !.vertex_to_dart = IF vertices[i] \in DOMAIN @ THEN @
                                         ELSE Put(@, vertices[i], d),
                      !.orientation = Put(Put(@, d, TRUE), index(st.g, d, 1), FALSE)],
           LAMBDA st1 :
             let(al2(st.g, d, 1, 0), LAMBDA d1 :
               IF edges[i] \in DOMAIN st1.edge_to_dart
               THEN let(sew_in_order(st1.g, 2, d1, st1.edge_to_dart[edges[i]]),
                        LAMBDA r :
                          IF r.res # "Ok" THEN [st1 EXCEPT !.res = r.res]
                          ELSE from_sides_no_reverse([st1 EXCEPT !.g = r.g], vertices, edges,
                                                     i + 1, d1))
               ELSE from_sides_no_reverse([st1 EXCEPT !.edge_to_dart = Put(@, edges[i], d1)],
                                          vertices, edges, i + 1, d1)))

\* "assign vertices and assign+sew edges": the loop over the sides of one
\* face, d the counterclockwise dart for vertices[i]; an error of sew
\* returns as Error::GMap
RECURSIVE from_sides(_, _, _, _, _)
from_sides(st, vertices, edges, i, d) ==
  IF i > Min(Len(vertices), Len(edges)) THEN st
  ELSE let([st EXCEPT !.vertex_to_dart = IF vertices[i] \in DOMAIN @ THEN @
                                         ELSE Put(@, vertices[i], d),
                      !.orientation = Put(Put(@, d, TRUE), index(st.g, d, 1), FALSE)],
           LAMBDA st1 :
             let(al2(st.g, d, 1, 0), LAMBDA d1 :
               IF edges[i] \in DOMAIN st1.edge_to_dart
               THEN let(sew_in_order(st1.g, 2, d1, index(st1.g, st1.edge_to_dart[edges[i]], 0)),
                        LAMBDA r :
                          IF r.res # "Ok" THEN [st1 EXCEPT !.res = r.res]
                          ELSE from_sides([st1 EXCEPT !.g = r.g], vertices, edges, i + 1, d1))
               ELSE from_sides([st1 EXCEPT !.edge_to_dart = Put(@, edges[i], d1)],
                               vertices, edges, i + 1, d1)))

\* "make polygon for each face": the loop over the faces, face counted
\* from 1 here and from 0 in the record
RECURSIVE from_faces(_, _, _)
from_faces(st, f, face) ==
  IF face > Min(Len(f.faces_vertices), Len(f.faces_edges)) THEN st
  ELSE IF Len(f.faces_vertices[face]) # Len(f.faces_edges[face])
  THEN [st EXCEPT !.res = "FoldBadFace"]
  ELSE let(add_polygon(st.g, Len(f.faces_vertices[face])), LAMBDA r :
         IF r.res # "Ok" THEN [st EXCEPT !.res = r.res]
         ELSE let(from_sides([st EXCEPT !.g = r.g,
                                        !.face_to_dart = Put(@, face - 1, ndarts(st.g))],
                             f.faces_vertices[face], f.faces_edges[face], 1, ndarts(st.g)),
                  LAMBDA s2 :
                    IF s2.res # "Ok" THEN s2 ELSE from_faces(s2, f, face + 1)))

\* "extract vertex coordinates"
RECURSIVE from_coords(_, _, _, _)
from_coords(st, f, vertices_coords, vertex) ==
  IF vertex > Len(f.vertices_coords) THEN [res |-> "Ok", vertices_coords |-> vertices_coords]
  ELSE IF (vertex - 1) \notin DOMAIN st.vertex_to_dart
  THEN [res |-> "FoldInvalidReference", vertices_coords |-> vertices_coords]
  ELSE let(f.vertices_coords[vertex], LAMBDA coords :
         IF Len(coords) < 2 \/ Len(coords) > 3 \/ (Len(coords) = 3 /\ coords[3] # 0)
         THEN [res |-> "FoldBadCoordinates", vertices_coords |-> vertices_coords]
         ELSE from_coords(st, f,
                          OrbitMap_insert(vertices_coords, st.g, st.vertex_to_dart[vertex - 1],
                                          <<coords[1], coords[2]>>),
                          vertex + 1))

\* Ok(Some(angle)), Ok(None) for a boundary edge, Err(FoldBadAngle) for
\* anything else
interpret_assignment(a) ==
  CASE a = "B" -> [res |-> "Ok", angle |-> None]
    [] a = "M" -> [res |-> "Ok", angle |-> -180]
    [] a = "V" -> [res |-> "Ok", angle |-> 180]
    [] a = "F" -> [res |-> "Ok", angle |-> 0]
    [] OTHER -> [res |-> "FoldBadAngle", angle |-> None]

\* the (edge, angle) pairs the loop over the fold angles goes through:
\* edges_foldAngle if there is any, the assignments but "B" otherwise
RECURSIVE angles_from_assignment(_, _)
angles_from_assignment(assignment, edge) ==
  IF edge > Len(assignment) THEN <<>>
  ELSE (IF interpret_assignment(assignment[edge]).angle = None THEN <<>>
        ELSE <<<<edge - 1, interpret_assignment(assignment[edge]).angle>>>>)
       \o angles_from_assignment(assignment, edge + 1)

angles_specified(f) == [k \in 1 .. Len(f.edges_fold_angle) |-> <<k - 1, f.edges_fold_angle[k]>>]

\* "and fold angle"
RECURSIVE from_angles(_, _, _, _)
from_angles(st, edges_fold_angle, fold_angle, k) ==
  IF k > Len(edges_fold_angle) THEN [res |-> "Ok", fold_angle |-> fold_angle]
  ELSE IF edges_fold_angle[k][1] \notin DOMAIN st.edge_to_dart
  THEN [res |-> "FoldInvalidReference", fold_angle |-> fold_angle]
  ELSE IF edges_fold_angle[k][2] < -180 \/ edges_fold_angle[k][2] > 180
  THEN [res |-> "FoldBadAngle", fold_angle |-> fold_angle]
  ELSE from_angles(st, edges_fold_angle,
                   OrbitMap_insert(fold_angle, st.g, st.edge_to_dart[edges_fold_angle[k][1]],
                                   edges_fold_angle[k][2]),
                   k + 1)

\* Err(res): no crease pattern and no G-map
Failed(res) == [res |-> res, g |-> Ingest_new.g, cp |-> None]

\* CreasePattern::from after the loop over the faces: cp holds the
\* CreasePattern but its g, and the FoldTracking
from_rest(st, f) ==
  IF st.res # "Ok" THEN Failed(st.res)
  ELSE let(from_coords(st, f, OrbitMap_over_cells(0), 1), LAMBDA vc :
         IF vc.res # "Ok" THEN Failed(vc.res)
         ELSE IF \E k \in 1 .. Len(f.edges_assignment) :
                   interpret_assignment(f.edges_assignment[k]).res # "Ok"
         THEN Failed("FoldBadAngle")
         ELSE let(from_angles(st,
                              IF f.edges_fold_angle = <<>>
                              THEN angles_from_assignment(f.edges_assignment, 1)
                              ELSE angles_specified(f),
                              OrbitMap_over_cells(1), 1),
                  LAMBDA fa :
                    IF fa.res # "Ok" THEN Failed(fa.res)
                    ELSE [res |-> "Ok", g |-> st.g,
                          cp |-> [orientation |-> st.orientation,
                                  vertices_coords |-> vc.vertices_coords,
                                  fold_angle |-> fa.fold_angle,
                                  face_to_dart |-> st.face_to_dart,
                                  edge_to_dart |-> st.edge_to_dart,
                                  vertex_to_dart |-> st.vertex_to_dart]]))

CreasePattern_from(f) ==
  IF f.faces_vertices = <<>> \/ f.faces_edges = <<>> \/ f.vertices_coords = <<>>
     \/ (f.edges_assignment = <<>> /\ f.edges_fold_angle = <<>>)
  THEN Failed("FoldMissingField")
  ELSE from_rest(from_faces(Ingest_new, f, 1), f)

\* the FOLD records read: up to MaxFaces of the triangles on the corners
\* 0 .. 3 and the centre 4 of a square of side 2, each listed
\* counterclockwise; the vertices and the edges are numbered as they
\* first appear
Points == << <<0, 0>>, <<2, 0>>, <<2, 2>>, <<0, 2>>, <<1, 1>> >>

Triangles ==
  << <<0, 1, 4>>, <<1, 2, 4>>, <<2, 3, 4>>, <<3, 0, 4>>,
     <<0, 1, 2>>, <<1, 2, 3>>, <<2, 3, 0>>, <<3, 0, 1>> >>

\* the quarters of the square, by their first corner, that the triangles
\* cover
Quarters == << {0}, {1}, {2}, {3}, {0, 1}, {1, 2}, {2, 3}, {3, 0} >>

\* the side between the corners a and b is on this many of the triangles
\* picked
Sharing(p, a, b) ==
  Cardinality({f \in DOMAIN p : {a, b} \subseteq Range(Triangles[p[f]])})

\* the triangles picked, in increasing order: triangles that do not
\* overlap, or else with a side on three of them
Picks ==
  {p \in UNION {[1 .. n -> 1 .. Len(Triangles)] : n \in 1 .. MaxFaces} :
     /\ \A i, j \in DOMAIN p : i < j => p[i] < p[j]
     /\ \/ \A i, j \in DOMAIN p : i < j => Quarters[p[i]] \cap Quarters[p[j]] = {}
        \/ \E a, b \in 0 .. 4 : a < b /\ Sharing(p, a, b) >= 3}

RECURSIVE Distinct(_, _)
Distinct(q, k) ==
  IF k > Len(q) THEN <<>>
  ELSE IF \E i \in 1 .. (k - 1) : q[i] = q[k] THEN Distinct(q, k + 1)
  ELSE <<q[k]>> \o Distinct(q, k + 1)

IndexOf(q, x) == (CHOOSE i \in 1 .. Len(q) : q[i] = x) - 1

\* the corners, and the sides as pairs of corners, of the picked
\* triangles in the order they are listed
Listed(p, side) ==
  [k \in 1 .. 3 * Len(p) |->
     LET t == Triangles[p[(k - 1) \div 3 + 1]]
         i == ((k - 1) % 3) + 1
     IN IF side THEN {t[i], t[(i % 3) + 1]} ELSE t[i]]

\* boundary edges are "B" and the creases valleys
Assignment(p) ==
  LET sides == Listed(p, TRUE)
      edges == Distinct(sides, 1)
  IN [e \in 1 .. Len(edges) |->
        IF Cardinality({k \in 1 .. Len(sides) : sides[k] = edges[e]}) = 1 THEN "B" ELSE "V"]

Record(p, assignment) ==
  LET vertices == Distinct(Listed(p, FALSE), 1)
      edges == Distinct(Listed(p, TRUE), 1)
  IN [faces_vertices |-> [f \in 1 .. Len(p) |->
                            [i \in 1 .. 3 |-> IndexOf(vertices, Listed(p, FALSE)[3 * (f - 1) + i])]],
      faces_edges |-> [f \in 1 .. Len(p) |->
                         [i \in 1 .. 3 |-> IndexOf(edges, Listed(p, TRUE)[3 * (f - 1) + i])]],
      vertices_coords |-> [v \in 1 .. Len(vertices) |-> Points[vertices[v] + 1]],
      edges_assignment |-> assignment,
      edges_fold_angle |-> <<>>]

\* the records of the picked triangles: the assignment above, or with one
\* edge assigned otherwise
Records ==
  UNION {{Record(p, Assignment(p))} \cup
         {Record(p, [Assignment(p) EXCEPT ![e] = a]) :
            e \in DOMAIN Assignment(p), a \in {"B", "M", "V", "F"}} : p \in Picks}

\* Isometry3: a rotation, as its matrix, and a translation
identity ==
  [rotation |-> << <<1, 0, 0>>, <<0, 1, 0>>, <<0, 0, 1>> >>, translation |-> <<0, 0, 0>>]

Dot(u, v) == u[1] * v[1] + u[2] * v[2] + u[3] * v[3]

Column(m, j) == <<m[1][j], m[2][j], m[3][j]>>

Product(a, b) == [i \in 1 .. 3 |-> [j \in 1 .. 3 |-> Dot(a[i], Column(b, j))]]

\* the matrix a applied to the vector v
Rotated(a, v) == [i \in 1 .. 3 |-> Dot(a[i], v)]

\* Point3::new(p.x, p.y, 0.0)
Point3(p) == <<p[1], p[2], 0>>

\* isometry * point
Moved(iso, p) ==
  [i \in 1 .. 3 |-> Rotated(iso.rotation, p)[i] + iso.translation[i]]

\* a * b: b first
Composed(a, b) ==
  [rotation |-> Product(a.rotation, b.rotation),
   translation |-> Moved(a, b.translation)]

\* Rotation3::from_axis_angle(Unit::new_normalize(v), angle) for the angles
\* of a flat folding, in degrees: the identity, or the half turn
\* 2 u u^T - I with u = v / |v|, whatever the sign of the angle
from_axis_angle(v, angle) ==
  IF angle = 0 THEN identity.rotation
  ELSE [i \in 1 .. 3 |-> [j \in 1 .. 3 |->
          (2 * v[i] * v[j]) \div Dot(v, v) - (IF i = j THEN 1 ELSE 0)]]

\* Isometry3::rotation_wrt_point(rotation, p)
rotation_wrt_point(rotation, p) ==
  [rotation |-> rotation,
   translation |-> [i \in 1 .. 3 |-> p[i] - Rotated(rotation, p)[i]]]

\* the isometry of the face across the counterclockwise dart edge of a
\* face with my_isometry
other_isometry(g, c, my_isometry, edge) ==
  LET p == Point3(c.vertices_coords.map[edge])
      q == Point3(c.vertices_coords.map[al2(g, edge, 2, 0)])
  IN Composed(my_isometry,
              rotation_wrt_point(
                from_axis_angle([i \in 1 .. 3 |-> q[i] - p[i]], c.fold_angle.map[edge]), p))

\* "check the old isometry matches the new one": the angle and the squared
\* length of new^-1 * old against ISO_ANGLE_EPSILON and ISO_LENGTH_EPSILON
distinct_isometries(new, old) == new # old

\* the loop "for vertex in g.one_dart_per_incident_cell(face, 0, 2)" that
\* gives the vertices of a face their folded coordinates; the fixed face
\* finds none of them there
RECURSIVE fold_vertices(_, _, _, _, _, _)
fold_vertices(g, c, folded_coords, iso, vs, k) ==
  IF k > Len(vs) THEN folded_coords
  ELSE IF vs[k] \in DOMAIN folded_coords.map
  THEN fold_vertices(g, c, folded_coords, iso, vs, k + 1)
  ELSE fold_vertices(g, c,
                     OrbitMap_insert(folded_coords, g, vs[k],
                                     Moved(iso, Point3(c.vertices_coords.map[vs[k]]))),
                     iso, vs, k + 1)

one_dart_per_incident_cell(g, d, i, j) == unique_by_orbit(g, orbit(g, d, cell(j)), cell(i))

\* fixed_vertices that leaves out the first vertex
fixed_vertices_but_first(g, c, folded_coords, vs, k) ==
  [folded_coords EXCEPT !.map =
     [d \in UNION {Range(orbit(g, vs[i], folded_coords.indices)) : i \in 2 .. Len(vs)} |->
        Point3(c.vertices_coords.map[d])]]

\* FoldedState::from before its loop: the folded coordinates of the
\* vertices of the fixed face
RECURSIVE fixed_vertices(_, _, _, _, _)
fixed_vertices(g, c, folded_coords, vs, k) ==
  IF k > Len(vs) THEN folded_coords
  ELSE fixed_vertices(g, c,
                      OrbitMap_insert(folded_coords, g, vs[k],
                                      Point3(c.vertices_coords.map[vs[k]])),
                      vs, k + 1)

\* ------------------------------------------------------------------
\* CreasePattern::from on a FOLD record and FoldedState::from on what it
\* returns.  frame is where the program stands: pc the position, given
\* the dart FoldedState::from was called with, and fixed_face, my_face and
\* edge its locals.  folded
\* holds folded_coords, seen_edges, isometries and frontier, and, for the
\* record, the darts pushed onto frontier and the edges the loop went
\* across, in order.

InitFold ==
  /\ fold \in Records
  /\ dimension = 2
  /\ alpha = <<>>
  /\ deleted = <<>>
  /\ last = Call("read", <<>>, "Ok", {})
  /\ frame = [pc |-> "from", given |-> None, fixed_face |-> None, my_face |-> None,
              edge |-> None]
  /\ cp = None
  /\ folded = None
  /\ om = None
  /\ reprs = None
  /\ tracking = None
  /\ problem = None
  /\ constraints = None

notFold == <<om, reprs, tracking, problem, constraints>>

\* CreasePattern::from(&fold)
Ingest ==
  /\ At("from")
  /\ let(CreasePattern_from(fold), LAMBDA r :
       /\ Set(r.g)
       /\ cp' = r.cp
       /\ last' = Call("CreasePattern::from", <<>>, r.res, {})
       /\ frame' = [frame EXCEPT !.pc = IF r.res = "Ok" THEN "fold" ELSE "done"])
  /\ UNCHANGED <<fold, folded>>
  /\ UNCHANGED notFold

\* FoldedState::from returned Err(res), or panicked
Abort(res) ==
  /\ last' = Call("FoldedState::from", <<frame.given>>, res, {})
  /\ folded' = None
  /\ frame' = [frame EXCEPT !.pc = "done"]

\* FoldedState::from(&cp, given) up to its loop, for the dart of a face in
\* the FoldTracking or the clockwise dart next to it
Begin ==
  /\ At("fold")
  /\ \E f \in DOMAIN cp.face_to_dart, clockwise \in BOOLEAN :
       LET given == IF clockwise THEN index(self, cp.face_to_dart[f], 1)
                    ELSE cp.face_to_dart[f]
           fixed_face == IF cp.orientation[given] THEN given ELSE index(self, given, 0)
       IN let(one_dart_per_incident_cell(self, fixed_face, 0, 2), LAMBDA vs :
            IF \E k \in 1 .. Len(vs) : vs[k] \notin DOMAIN cp.vertices_coords.map
            THEN /\ last' = Call("FoldedState::from", <<given>>, "panic", {})
                 /\ folded' = None
                 /\ frame' = [frame EXCEPT !.pc = "done", !.given = given]
            ELSE /\ folded' = [folded_coords |->
                                 fixed_vertices(self, cp, OrbitMap_over_cells(0), vs, 1),
                               seen_edges |-> OrbitMap_over_cells(1),
                               isometries |->
                                 OrbitMap_insert(OrbitMap_over_cells(2), self, fixed_face,
                                                 identity),
                               frontier |-> <<fixed_face>>,
                               pushed |-> <<fixed_face>>,
                               crossed |-> <<>>]
                 /\ frame' = [frame EXCEPT !.pc = "while", !.given = given,
                                           !.fixed_face = fixed_face]
                 /\ last' = Call("push_back", <<given>>, "Ok", fixed_face))
  /\ UNCHANGED <<dimension, alpha, deleted, fold, cp>>
  /\ UNCHANGED notFold

\* "while !frontier.is_empty()": the next face, or Ok(Self { .. })
Pop ==
  /\ At("while")
  /\ IF folded.frontier = <<>>
     THEN /\ frame' = [frame EXCEPT !.pc = "done"]
          /\ last' = Call("FoldedState::from", <<frame.given>>, "Ok", {})
          /\ UNCHANGED folded
     ELSE /\ frame' = [frame EXCEPT !.pc = "loop", !.my_face = Head(folded.frontier),
                                    !.edge = Head(folded.frontier)]
          /\ folded' = [folded EXCEPT !.frontier = Tail(@)]
          /\ last' = Call("pop_front", <<>>, "Ok", Head(folded.frontier))
  /\ UNCHANGED <<dimension, alpha, deleted, fold, cp>>
  /\ UNCHANGED notFold

\* the end of a turn of the loop over the darts of my_face
Advance ==
  frame' = [frame EXCEPT !.edge = al2(self, frame.edge, 1, 0),
                         !.pc = IF al2(self, frame.edge, 1, 0) = frame.my_face
                                THEN "while" ELSE "loop"]

\* the test of the loop without seen_edges
Uncrossed_unseen(edge) == ~is_free(self, edge, 2)

\* the edge is one to go across
Uncrossed(edge) == edge \notin DOMAIN folded.seen_edges.map /\ ~is_free(self, edge, 2)

\* a turn of the loop at an edge seen before or on the boundary
Skip ==
  /\ At("loop")
  /\ ~Uncrossed(frame.edge)
  /\ Advance
  /\ last' = Call("skip", <<frame.edge>>, "Ok", {})
  /\ UNCHANGED <<dimension, alpha, deleted, fold, cp, folded>>
  /\ UNCHANGED notFold

\* a turn of the loop across an edge, other_face met for the first time
Reach(edge, other_face, iso) ==
  let(one_dart_per_incident_cell(self, other_face, 0, 2), LAMBDA vs :
    IF \E k \in 1 .. Len(vs) : /\ vs[k] \notin DOMAIN folded.folded_coords.map
                               /\ vs[k] \notin DOMAIN cp.vertices_coords.map
    THEN Abort("panic")
    ELSE /\ folded' = [folded EXCEPT
                         !.isometries = OrbitMap_insert(@, self, other_face, iso),
                         !.folded_coords = fold_vertices(self, cp, @, iso, vs, 1),
                         !.frontier = Append(@, other_face),
                         !.pushed = Append(@, other_face),
                         !.seen_edges = OrbitMap_insert(@, self, edge, TRUE),
                         !.crossed = Append(@, edge)]
         /\ Advance
         /\ last' = Call("push_back", <<edge>>, "Ok", other_face))

\* a turn of the loop across an edge
Cross ==
  /\ At("loop")
  /\ Uncrossed(frame.edge)
  /\ LET edge == frame.edge
         other_face == al2(self, edge, 2, 0)
     IN IF \/ edge \notin DOMAIN cp.vertices_coords.map
           \/ other_face \notin DOMAIN cp.vertices_coords.map
           \/ edge \notin DOMAIN cp.fold_angle.map
        THEN Abort("panic")
        ELSE let(other_isometry(self, cp, folded.isometries.map[frame.my_face], edge),
                 LAMBDA iso :
                   IF other_face \in DOMAIN folded.isometries.map
                   THEN IF distinct_isometries(iso, folded.isometries.map[other_face])
                        THEN Abort("DistinctIsometries")
                        ELSE /\ folded' = [folded EXCEPT
                                             !.seen_edges = OrbitMap_insert(@, self, edge, TRUE),
                                             !.crossed = Append(@, edge)]
                             /\ Advance
                             /\ last' = Call("seen", <<edge>>, "Ok", other_face)
                   ELSE Reach(edge, other_face, iso))
  /\ UNCHANGED <<dimension, alpha, deleted, fold, cp>>
  /\ UNCHANGED notFold

NextFold ==
  \/ Ingest
  \/ Begin
  \/ Pop
  \/ Skip
  \/ Cross

SpecFold == InitFold /\ [][NextFold]_vars

\* the faces of the record f that edge e is on
FacesOn(f, e) ==
  {k \in 1 .. Len(f.faces_edges) : \E i \in 1 .. Len(f.faces_edges[k]) : f.faces_edges[k][i] = e}

\* some edge of the record is on three faces or more
ThreeFaces(f) ==
  \E k \in 1 .. Len(f.faces_edges) : \E i \in 1 .. Len(f.faces_edges[k]) :
    Cardinality(FacesOn(f, f.faces_edges[k][i])) >= 3

\* CreasePattern::from returned
Ingested == last.op = "CreasePattern::from"

\* C28 as stated: CreasePattern::from on a FOLD record with an edge index
\* used by three faces fails with FoldNonManifold and yields no crease
\* pattern.
C28_NonManifold ==
  (Ingested /\ ThreeFaces(fold)) =>
    (last.res = "FoldNonManifold" /\ frame.pc = "done" /\ ndarts(self) = 0)

\* what CreasePattern::from does on such a record: the third sew of the
\* edge fails and its GMapError::Unsewable is returned; there is no crease
\* pattern
C28_Unsewable ==
  (Ingested /\ ThreeFaces(fold)) =>
    (last.res = "Unsewable" /\ frame.pc = "done" /\ ndarts(self) = 0)

\* a record with an edge on three faces was read
C28_Witness == Ingested /\ ThreeFaces(fold)

\* FoldedState::from is running or has returned Ok
Folding ==
  \/ frame.pc \in {"while", "loop"}
  \/ frame.pc = "done" /\ last.op = "FoldedState::from" /\ last.res = "Ok"

\* FoldedState::from returned Ok
Folded == frame.pc = "done" /\ last.op = "FoldedState::from" /\ last.res = "Ok"

\* no two darts of q lie in the same orbit of a
OncePerOrbit(q, a) ==
  \A i, j \in 1 .. Len(q) : i < j => q[j] \notin Closure(self, q[i], a)

\* the turns the loop over the darts of my_face has left, edge included
RECURSIVE TurnsLeft(_)
TurnsLeft(edge) ==
  IF al2(self, edge, 1, 0) = frame.my_face THEN 1 ELSE 1 + TurnsLeft(al2(self, edge, 1, 0))

\* the steps FoldedState::from has left at most: a pop and a turn for each
\* side of every face not popped yet, the turns left on my_face, and the
\* pop that finds frontier empty
StepsLeft ==
  LET faces == Cardinality(DOMAIN cp.face_to_dart)
      each == 1 + Cardinality(Closure(self, 0, FACE)) \div 2
  IN CASE frame.pc = "fold" -> each * faces + 2
       [] frame.pc = "while" ->
            each * (faces - Len(folded.pushed) + Len(folded.frontier)) + 1
       [] frame.pc = "loop" ->
            each * (faces - Len(folded.pushed) + Len(folded.frontier)) + 1
              + TurnsLeft(frame.edge)
       [] OTHER -> 0

\* the darts of the faces connected to the fixed face through 2-sewn edges
Connected == Closure(self, frame.fixed_face, ALL)

\* C29: FoldedState::from terminates (every step brings it nearer to its
\* return); every face is pushed onto frontier at most once and every edge
\* is gone across at most once; when it returns Ok, every face connected to
\* the fixed face through 2-sewn edges has one isometry and every vertex of
\* those faces a folded coordinate, and the other faces have no isometry.
C29_Folded ==
  /\ [][frame.pc \in {"fold", "while", "loop"} => StepsLeft' < StepsLeft]_vars
  /\ [](Folding => /\ StepsLeft >= 0
                   /\ OncePerOrbit(folded.pushed, FACE)
                   /\ OncePerOrbit(folded.crossed, EDGE))
  /\ [](Folded => /\ DOMAIN folded.isometries.map = Connected
                  /\ \A d \in Connected :
                       /\ d \in DOMAIN folded.folded_coords.map
                       /\ \A e \in Closure(self, d, FACE) :
                            folded.isometries.map[e] = folded.isometries.map[d]
                  /\ \A d \in Darts(self) \ Connected :
                       d \notin DOMAIN folded.isometries.map)

\* FoldedState::from returned Ok on four faces around a vertex: the fourth
\* edge led to a face that had its isometry
C29_Witness ==
  /\ Folded
  /\ Len(folded.pushed) = 4
  /\ Len(folded.crossed) = 4
  /\ Connected = Darts(self)

\* C30: in every FoldedState that FoldedState::from builds, the fixed face
\* is the counterclockwise dart of the dart given, its isometry is the
\* identity and each of its vertices has the folded coordinate (x, y, 0) of
\* its coordinate (x, y); this holds from the first push to the return.
C30_FixedFace ==
  Folding =>
    /\ cp.orientation[frame.fixed_face]
    /\ frame.fixed_face \in {frame.given, index(self, frame.given, 0)}
    /\ \A d \in Closure(self, frame.fixed_face, FACE) :
         /\ d \in DOMAIN folded.isometries.map
         /\ d \in DOMAIN folded.folded_coords.map
         /\ folded.isometries.map[d].rotation = << <<1, 0, 0>>, <<0, 1, 0>>, <<0, 0, 1>> >>
         /\ folded.isometries.map[d].translation = <<0, 0, 0>>
         /\ folded.folded_coords.map[d] =
              <<cp.vertices_coords.map[d][1], cp.vertices_coords.map[d][2], 0>>

\* FoldedState::from returned Ok, called with a clockwise dart, after it
\* folded a second face over
C30_Witness ==
  /\ Folded
  /\ frame.given # frame.fixed_face
  /\ Len(folded.pushed) >= 2
  /\ \E d \in DOMAIN folded.isometries.map : folded.isometries.map[d] # identity

(***************************************************************************)
(* The loop of process_face, turn by turn.  The main ring is the ring of   *)
(* head; a turn cuts the nodes from start to end out of it.                *)
(***************************************************************************)
\* the main ring of the list t with head h
Main(t, h) == RingOf(t, h)

\* a turn of the loop that found a sequence
ShrinkStep == At("loop") /\ last'.op = "shrink"

\* the step that leaves the loop of a face
LeaveLoop == At("loop") /\ ~At("loop")'

\* the sequence the turn works on
Found == find_enclosed_edge_sequence(tracking, frame.head)

\* the nodes the turn cuts out: from start to end
Cut == Segment(tracking, Found.start, Found.end, Len(tracking))

\* the nodes the turn added to the list
Fresh == Nodes(tracking') \ Nodes(tracking)

\* the clauses the step added
NewClauses == DOMAIN constraints'.clause_colors \ DOMAIN constraints.clause_colors

\* C31: the loop of process_face ends on every face that passed the
\* Kawasaki check: the search of every turn ends, with no sequence or with
\* one on the main ring, and no turn panics, each turn
\* that found a sequence takes an even number of nodes, at least 2, off
\* the main ring (so there are at most half as many such turns as the
\* face has corners), the main ring keeps an even number of nodes, at
\* least 2, head stays on the main ring, and the face ends with exactly
\* one Red clause over the remaining ring, added after the clauses of its
\* turns.
C31_ShrinkLoop ==
  /\ [][At("loop") => last'.res # "panic"]_vars
  /\ [][ShrinkStep =>
          LET before == Cardinality(Main(tracking, frame.head))
              after == Cardinality(Main(tracking', frame'.head))
          IN /\ At("loop")'
             /\ Main(tracking', frame'.head) = (Main(tracking, frame.head) \ Cut) \cup Fresh
             /\ after < before
             /\ before - after >= 2
             /\ (before - after) % 2 = 0]_vars
  /\ [](At("loop") =>
         /\ frame.head \in Nodes(tracking)
         /\ Cardinality(Main(tracking, frame.head)) >= 2
         /\ Cardinality(Main(tracking, frame.head)) % 2 = 0
         /\ (last.op = "check_kawasaki" => Main(tracking, frame.head) = Nodes(tracking)))
  /\ [][LeaveLoop =>
          /\ Found = NoSequence
          /\ Cardinality(NewClauses) = 1
          /\ \A c \in NewClauses :
               /\ constraints'.clause_colors[c] = "Red"
               /\ Variables(constraints', c) = Cardinality(Main(tracking, frame.head))
               /\ \A b \in DOMAIN constraints.clause_colors : b < c]_vars
  /\ [](At("loop") =>
         \/ Found = NoSequence
         \/ /\ Found.n >= 2
            /\ Found.start \in Main(tracking, frame.head)
            /\ Found.end \in Main(tracking, frame.head))

\* the second turn on a face of six corners: the ring went from six nodes
\* to four and now to two
C31_Witness ==
  /\ At("loop")
  /\ last.op = "shrink"
  /\ Len(Corners(ThisFace)) = 6
  /\ Cardinality(Main(tracking, frame.head)) = 2

(***************************************************************************)
(* find_enclosed_edge_sequence on the rings of 1 .. MaxRing nodes with any *)
(* lengths: tracking is the list, the cg dart of a node plays no part.     *)
(***************************************************************************)
\* rings of up to MaxRing nodes
MaxRing == 5

\* the list process_face fills from the lengths ls
Ring(ls) ==
  fill_tracking(Circular_new, [k \in 1 .. Len(ls) |-> k],
                [k \in 1 .. Len(ls) |-> <<k, ls[k]>>], 1, None).tracking

InitSequence ==
  /\ NoMap
  /\ last = Call("new", <<>>, "Ok", NoSequence)
  /\ \E n \in 1 .. MaxRing : \E ls \in [1 .. n -> 1 .. MaxLength] : tracking = Ring(ls)
  /\ om = None
  /\ reprs = None
  /\ problem = None
  /\ constraints = None
  /\ frame = None
  /\ NoFolding

FindEnclosedEdgeSequence ==
  /\ \E head \in Nodes(tracking) :
       last' = Call("find_enclosed_edge_sequence", <<head>>, "Ok",
                    find_enclosed_edge_sequence(tracking, head))
  /\ UNCHANGED tracking
  /\ UNCHANGED notCircular

NextSequence == FindEnclosedEdgeSequence

SpecSequence == InitSequence /\ [][NextSequence]_vars

\* the nodes of the run of x: from start up to but excluding end
Run(t, x) == Segment(t, x.start, x.end, Len(t)) \ {x.end}

\* C32: find_enclosed_edge_sequence returns None iff all nodes of the ring
\* of head carry the same length; otherwise it returns (start, end, n,
\* length) with the n - 1 nodes from start up to but excluding end all
\* carrying length, the node before start and the node end carrying more,
\* and neither of these two among the nodes of the run.
C32_EnclosedSequence ==
  last.op = "find_enclosed_edge_sequence" =>
    LET x == last.ret
        ring == RingOf(tracking, last.args[1])
    IN /\ (x = NoSequence) <=>
            (\A a, b \in ring : Length(tracking, a) = Length(tracking, b))
       /\ x # NoSequence =>
            /\ x.start \in ring
            /\ x.end \in ring
            /\ Cardinality(Run(tracking, x)) = x.n - 1
            /\ \A a \in Run(tracking, x) : Length(tracking, a) = x.length
            /\ Length(tracking, prev(tracking, x.start)) > x.length
            /\ Length(tracking, x.end) > x.length
            /\ x.end \notin Run(tracking, x)
            /\ prev(tracking, x.start) \notin Run(tracking, x)

\* on the ring 3 2 1 1 2 the search from the first node starts over at the
\* third and returns the run of the two nodes of length 1
C32_Witness ==
  /\ last.op = "find_enclosed_edge_sequence"
  /\ last.args = <<0>>
  /\ [k \in 1 .. Len(tracking) |-> Length(tracking, k - 1)] = <<3, 2, 1, 1, 2>>
  /\ last.ret = [start |-> 2, end |-> 4, n |-> 3, length |-> 1]

(***************************************************************************)
(* One turn of the loop of process_face, in the graph and in the list.     *)
(***************************************************************************)
\* the cg dart the node a of the list carries
Carried(a) == node(tracking, a).data[1]

\* the edge of cg the dart d lies on
EdgeOf(cg, d) == Range(orbit(cg, d, EDGE))

\* the darts of the clause c, a vertex of cg
ClauseDarts(cg, c) == Range(orbit(cg, c, VERTEX))

\* the dart d, 0-free before the step, is now 0-sewn to an edge of clause c
SewnInto(d, c) ==
  /\ is_free(constraints.cg, d, 0)
  /\ ~is_free(constraints'.cg, d, 0)
  /\ index(constraints'.cg, d, 0) \in ClauseDarts(constraints'.cg, c)

\* the turn is one of the branch "|S| is even"
EvenStep == ShrinkStep /\ Found.n % 2 = 0

\* the turn is one of the branch "|S| is odd"
OddStep == ShrinkStep /\ Found.n % 2 = 1

\* C33: an even turn takes the n_S nodes from start to end off the main
\* ring, adds one Red clause of n_S variables with mountain-count n_S / 2,
\* 0-sews the cg dart of each removed node to an edge of that clause, no
\* two to the same edge, and gives the node before the run the length (its
\* old length - run length + length of end); no other data of a node
\* changes and no node is added.
C33_EvenStep ==
  [][EvenStep =>
      LET x == Found
          start_prev == prev(tracking, x.start)
      IN /\ Cardinality(Cut) = x.n
         /\ Cut \subseteq Main(tracking, frame.head)
         /\ Main(tracking', frame'.head) = Main(tracking, frame.head) \ Cut
         /\ Cardinality(NewClauses) = 1
         /\ \A c \in NewClauses :
              /\ constraints'.clause_colors[c] = "Red"
              /\ Variables(constraints', c) = x.n
              /\ constraints'.clause_sizes[c] = x.n \div 2
              /\ \A a \in Cut : SewnInto(Carried(a), c)
              /\ \A a, b \in Cut :
                   a # b => EdgeOf(constraints'.cg, Carried(a)) # EdgeOf(constraints'.cg, Carried(b))
         /\ Nodes(tracking') = Nodes(tracking)
         /\ node(tracking', start_prev).data =
              <<Carried(start_prev),
                Length(tracking, start_prev) - x.length + Length(tracking, x.end)>>
         /\ \A a \in Nodes(tracking) \ {start_prev} :
              node(tracking', a).data = node(tracking, a).data]_vars

\* an even turn on a face of six corners has run
C33_Witness ==
  /\ At("loop")
  /\ last.op = "shrink"
  /\ last.args[2] % 2 = 0
  /\ Len(Corners(ThisFace)) = 6

\* the clauses of colour color among those the step added
NewOf(color) == {c \in NewClauses : constraints'.clause_colors[c] = color}

\* C34: an odd turn takes the n_S nodes from start to end off the main
\* ring and adds two clauses: a Red one of n_S + 1 variables with
\* mountain-count (n_S + 1) / 2, n_S of whose edges are 0-sewn to the cg
\* darts of the removed nodes, and a Blue one of 2 variables with size 1,
\* one edge of which is 0-sewn into the one edge the Red clause had left;
\* exactly one new node, carrying the 0-free dart of the Blue clause's
\* other edge and the length of end, is spliced into the main ring directly
\* after the node that preceded the run.
C34_OddStep ==
  [][OddStep =>
      LET x == Found
          start_prev == prev(tracking, x.start)
          cg == constraints'.cg
      IN /\ Cardinality(Cut) = x.n
         /\ Cut \subseteq Main(tracking, frame.head)
         /\ Cardinality(NewClauses) = 2
         /\ Cardinality(NewOf("Red")) = 1
         /\ Cardinality(NewOf("Blue")) = 1
         /\ \A r \in NewOf("Red") :
              /\ Variables(constraints', r) = x.n + 1
              /\ constraints'.clause_sizes[r] = (x.n + 1) \div 2
              /\ \A a \in Cut : SewnInto(Carried(a), r)
              /\ \A a, b \in Cut :
                   a # b => EdgeOf(cg, Carried(a)) # EdgeOf(cg, Carried(b))
              /\ \A d \in ClauseDarts(cg, r) : ~is_free(cg, d, 0)
              /\ \A b \in NewOf("Blue") :
                   /\ Variables(constraints', b) = 2
                   /\ constraints'.clause_sizes[b] = 1
                   /\ Cardinality({d \in ClauseDarts(cg, b) : ~is_free(cg, d, 0)}) = 2
                   /\ \A d \in ClauseDarts(cg, b) :
                        ~is_free(cg, d, 0) => index(cg, d, 0) \in ClauseDarts(cg, r)
                   /\ Cardinality(Fresh) = 1
                   /\ \A f \in Fresh :
                        /\ node(tracking', f).data[1] \in ClauseDarts(cg, b)
                        /\ node(tracking', f).data[1] = al2(cg, b, 2, 1)
                        /\ is_free(cg, node(tracking', f).data[1], 0)
                        /\ node(tracking', f).data[2] = Length(tracking, x.end)
                        /\ next(tracking', start_prev) = f
                        /\ prev(tracking', f) = start_prev
                        /\ next(tracking', f) = next(tracking, x.end)
                        /\ Main(tracking', frame'.head) =
                             (Main(tracking, frame.head) \ Cut) \cup {f}
         /\ \A a \in Nodes(tracking) : node(tracking', a).data = node(tracking, a).data]_vars

\* an odd turn on a face of six corners has run
C34_Witness ==
  /\ At("loop")
  /\ last.op = "shrink"
  /\ last.args[2] % 2 = 1
  /\ Len(Corners(ThisFace)) = 6

(***************************************************************************)
(* The per-vertex pass.                                                    *)
(***************************************************************************)
\* the vertex the pass stands on
ThisVertex == frame.vertices[frame.k]

\* a turn of "for vertex in self.g.one_dart_per_cell(0)"
VertexStep == At("vertices") /\ last'.op = "process_vertex"

\* the angles at the vertex of v, each named by its lowest dart
AnglesOf(v) == {Lowest(Closure(self, d, ANGLE)) : d \in Closure(self, v, VERTEX)}

\* those of them that are not Flat
NonFlatAt(v) == {a \in AnglesOf(v) : ~IsFlat(problem.angle_constraints, a)}

\* the dart i steps counterclockwise from d around its vertex in g
RECURSIVE Around(_, _, _)
Around(g, d, i) == IF i = 0 THEN d ELSE al2(g, Around(g, d, i - 1), 2, 1)

\* the number of steps counterclockwise from the seed v to the angle a
Place(v, a) == CHOOSE i \in 0 .. ndarts(self) :
                 /\ Around(self, v, i) = a
                 /\ \A j \in 0 .. (i - 1) : Around(self, v, j) # a

\* the angles the step gave a cg dart
Assigned == DOMAIN constraints'.angle_to_cg \ DOMAIN constraints.angle_to_cg

RECURSIVE Along(_, _)
Along(d, i) == IF i = 0 THEN d ELSE al2(self, Along(d, i - 1), 1, 0)

\* the number of corners of the face of d
Sides(d) == Cardinality(Closure(self, d, FACE)) \div 2

\* the length of the edge that ends at the corner d of the walk
EdgeBefore(d) == problem.edge_lengths[problem.or[EDGE][d]]

RECURSIVE Sum(_, _)
Sum(f, n) == IF n = 0 THEN 0 ELSE f[n] + Sum(f, n - 1)

\* the steps from the seed of face at which the walk meets a non-Flat corner
NonFlatSteps(face) ==
  {i \in 0 .. (Sides(face) - 1) : ~IsFlat(problem.angle_constraints, Along(face, i))}

\* with_exterior has made the problem and constraint_graph has not begun
Made == At("constraint_graph")

\* what nonflat_lengths returns on face: Ok with the corners c, or an error
NonflatLengthsOk(face, r) ==
  LET c == r.nonflat
      steps == NonFlatSteps(face)
      first == CHOOSE i \in steps : \A j \in steps : i <= j
      n == Sides(face)
  IN IF r.res # "Ok" THEN steps = {} \/ Cardinality(steps) % 2 = 1
     ELSE /\ Len(c) = Cardinality(steps)
          /\ Len(c) % 2 = 0
          /\ c[1][1] = Along(face, first)
          /\ {c[k][1] : k \in 1 .. Len(c)} = {Along(face, i) : i \in steps}
          /\ \A k \in 1 .. (Len(c) - 1) :
               \E i, j \in steps :
                 /\ i < j
                 /\ c[k][1] = Along(face, i)
                 /\ c[k + 1][1] = Along(face, j)
                 /\ \A m \in steps : ~(i < m /\ m < j)
                 /\ c[k][2] = Sum([e \in 1 .. (j - i) |-> EdgeBefore(Along(face, i + e))], j - i)
          /\ \E i \in steps :
               /\ c[Len(c)][1] = Along(face, i)
               /\ \A m \in steps : m <= i
               /\ c[Len(c)][2] =
                    Sum([e \in 1 .. (first + n - i) |-> EdgeBefore(Along(face, i + e))],
                        first + n - i)
          /\ Sum([k \in 1 .. Len(c) |-> c[k][2]], Len(c)) =
               Sum([i \in 1 .. n |-> EdgeBefore(Along(face, i))], n)

\* C36: on every face of a problem nonflat_lengths comes to an end; when
\* it returns Ok it returns the non-Flat corners of the face in the order
\* of the walk from the first of them, each exactly once, each with the sum
\* of the lengths of the edges from it to the next non-Flat corner, so that
\* the effective lengths add up to the total length of the edges of the
\* face, each edge counted once; it returns an error only on a face with no
\* non-Flat corner or an odd number of them.
C36_NonflatLengths ==
  Made =>
    \A k \in 1 .. Len(one_dart_per_cell(self, 2)) :
      let(one_dart_per_cell(self, 2)[k], LAMBDA face :
        NonflatLengthsOk(face, nonflat_lengths(self, problem, face)))

\* a face of four corners, two of them Flat: two corners are returned,
\* each with the length of two edges
C36_Witness ==
  /\ Made
  /\ \E k \in 1 .. Len(one_dart_per_cell(self, 2)) :
       let(one_dart_per_cell(self, 2)[k], LAMBDA face :
         /\ Sides(face) = 4
         /\ nonflat_lengths(self, problem, face).res = "Ok"
         /\ Len(nonflat_lengths(self, problem, face).nonflat) = 2)

(***************************************************************************)
(* add_cycle and add_polygon, call by call.                                *)
(***************************************************************************)
\* the step added to the map one closed cycle of 2n darts alternately
\* i-linked and j-linked and nothing else
CycleAdded(i, j, n) ==
  LET start == ndarts(self)
      new == start .. (start + 2 * n - 1)
  IN /\ last'.res = "Ok"
     /\ last'.ret = start
     /\ dimension' = dimension
     /\ ndarts(selfNext) = start + 2 * n
     /\ \A d \in Darts(self), k \in 0 .. dimension : index(selfNext, d, k) = index(self, d, k)
     /\ \A d \in new :
          /\ index(selfNext, d, i) \in new \ {d}
          /\ index(selfNext, d, j) \in new \ {d}
          /\ al2(selfNext, d, i, i) = d
          /\ al2(selfNext, d, j, j) = d
          /\ \A k \in (0 .. dimension) \ {i, j} : index(selfNext, d, k) = d
          /\ ~is_deleted(selfNext, d)
          /\ d < index(selfNext, d, i) => (d - start) % 2 = 0
     /\ Closure(selfNext, start, {i, j}) = new

\* the step is a call of add_cycle with n >= 1
AddCycleStep == last'.op = "add_cycle" /\ last'.args[3] >= 1

\* the step is a call of add_polygon with n >= 1
AddPolygonStep == last'.op = "add_polygon" /\ last'.args[1] >= 1

\* two different indices of the map
Linkable(i, j) == i # j /\ i <= dimension /\ j <= dimension

\* C37 as stated: add_cycle(i, j, n) for n >= 1 adds exactly 2n new darts
\* forming one closed cycle alternately i-linked and j-linked, returns the
\* lowest new dart, leaves the alpha entries of the darts there before as
\* they were, and the lower dart of every i-link has the parity of the
\* returned dart; add_polygon(n) is add_cycle(1, 0, n).
C37_AnyIndices ==
  /\ [][AddCycleStep => CycleAdded(last'.args[1], last'.args[2], last'.args[3])]_vars
  /\ [][AddPolygonStep => CycleAdded(1, 0, last'.args[1])]_vars

\* C37, amended: that holds of add_cycle(i, j, n) for n >= 1 and two
\* different indices i, j of the map (at most its dimension); with i = j
\* or an index above the dimension add_cycle panics, leaving the entries
\* of the darts there before as they were.  add_polygon(n) is
\* add_cycle(1, 0, n).
C37_AddCycle ==
  /\ [][AddCycleStep =>
          IF Linkable(last'.args[1], last'.args[2])
          THEN CycleAdded(last'.args[1], last'.args[2], last'.args[3])
          ELSE /\ last'.res = "panic"
               /\ \A d \in Darts(self), k \in 0 .. dimension :
                    index(selfNext, d, k) = index(self, d, k)]_vars
  /\ [][AddPolygonStep =>
          /\ CycleAdded(1, 0, last'.args[1])
          /\ selfNext = add_cycle(self, 1, 0, last'.args[1]).g]_vars

\* add_cycle(1, 2, 2) returned on a map that had two darts
C37_Witness ==
  /\ last.op = "add_cycle"
  /\ last.args = <<1, 2, 2>>
  /\ last.res = "Ok"
  /\ last.ret = 2
  /\ ndarts(self) = 6

(***************************************************************************)
(* The orientation bits of a crease pattern.                               *)
(***************************************************************************)
\* CreasePattern::from returned Ok((cp, tracking))
IngestedOk == Ingested /\ last.res = "Ok"

\* the darts d and e have orientation bits and they differ
Opposite(d, e) ==
  /\ d \in DOMAIN cp.orientation
  /\ e \in DOMAIN cp.orientation
  /\ cp.orientation[d] # cp.orientation[e]

\* C38: after CreasePattern::from succeeds every dart of the map has an
\* orientation bit, and alpha_0, alpha_1 and every alpha_2 that is not free
\* each link a dart of orientation true to one of orientation false.
C38_Orientation ==
  IngestedOk =>
    \A d \in Darts(self) :
      /\ d \in DOMAIN cp.orientation
      /\ Opposite(d, index(self, d, 0))
      /\ Opposite(d, index(self, d, 1))
      /\ ~is_free(self, d, 2) => Opposite(d, index(self, d, 2))

\* a crease pattern of four faces, sewn along four edges, was read
C38_Witness ==
  /\ IngestedOk
  /\ Len(fold.faces_vertices) = 4
  /\ Cardinality({d \in Darts(self) : ~is_free(self, d, 2)}) = 16

(***************************************************************************)
(* The Kawasaki sum along the loop of process_face.                        *)
(***************************************************************************)
\* the alternating signed sum of the lengths round the ring of h, as
\* check_kawasaki adds it up from h
RingSum(t, h) == length_total(t, iter(t, h), 1, TRUE)

\* C39: every turn of the shrink loop, even or odd, keeps the alternating
\* signed sum of the lengths round the main ring at 0 if it was 0, and
\* keeps the lengths positive, so that the ring the terminal clause is made
\* of still passes check_kawasaki.
C39_KawasakiKept ==
  /\ [][ShrinkStep =>
          (RingSum(tracking, frame.head) = 0 =>
             /\ RingSum(tracking', frame'.head) = 0
             /\ check_kawasaki(tracking', frame'.head) = "Ok"
             /\ \A a \in Main(tracking', frame'.head) : Length(tracking', a) >= 1)]_vars
  /\ [][LeaveLoop => check_kawasaki(tracking, frame.head) = "Ok"]_vars
  /\ [](At("loop") /\ last.op = "check_kawasaki" => RingSum(tracking, frame.head) = 0)

\* after an even turn on a face of six corners the ring of four nodes has
\* lengths of two kinds and sum 0: another turn is to come
C39_Witness ==
  /\ At("loop")
  /\ last.op = "shrink"
  /\ last.args[2] % 2 = 0
  /\ Cardinality(Main(tracking, frame.head)) = 4
  /\ Found # NoSequence
  /\ RingSum(tracking, frame.head) = 0

(***************************************************************************)
(* sew and unsew with an alpha index the map does not have.                *)
(***************************************************************************)
\* the step is sew(i, d0, d1) with i above the dimension
SewAbove == last'.op = "sew" /\ last'.args[1] > dimension

\* the step is unsew(d, i) with i above the dimension
UnsewAbove == last'.op = "unsew" /\ last'.args[2] > dimension

\* C40: for every i greater than the dimension of the map, sew(i, d0, d1)
\* and unsew(d, i) leave the alpha entries of all darts as they were and
\* do not return Ok.
C40_IndexAbove ==
  [][(SewAbove \/ UnsewAbove) => (alpha' = alpha /\ last'.res # "Ok")]_vars

====
